---- MODULE Spec2Model ----
(***************************************************************************)
(* Image Renamer Pro (web): the filename-generation and pair-numbering     *)
(* engine of src/app.js (rich variant, with implementer) and src/script.js *)
(* (simple variant), modelled handler by handler.                          *)
(*                                                                         *)
(* Strings are TLA+ strings; a character is a string of length 1.          *)
(* The page markup is not part of the sources: an <input> starts empty, a  *)
(* <select> starts on its placeholder option whose value is "", and a      *)
(* <select> whose selected option is removed falls back to that option.    *)
(***************************************************************************)
EXTENDS Integers, Sequences, FiniteSets, TLC

(***************************************************************************)
(* Bounds of the model.                                                    *)
(***************************************************************************)
\* largest number of images one import delivers
MaxImages == 3
\* largest sequence number the number input is taken to: a handler that would
\* set a larger one is not taken
MaxNumber == 3

(***************************************************************************)
(* String helpers (JavaScript String / RegExp primitives).                 *)
(***************************************************************************)
CharAt(s, i) == SubSeq(s, i, i)

\* the decimal digits, by value + 1
Digits == <<"0", "1", "2", "3", "4", "5", "6", "7", "8", "9">>

\* the class \d
IsDigit(c) == c \in {"0", "1", "2", "3", "4", "5", "6", "7", "8", "9"}

DigitValue(c) == (CHOOSE i \in 1..Len(Digits) : Digits[i] = c) - 1

\* String(n) for a non-negative integer n
RECURSIVE NumToStr(_)
NumToStr(n) ==
    IF n < 10 THEN Digits[n + 1]
    ELSE NumToStr(n \div 10) \o Digits[(n % 10) + 1]

\* parseInt(s) for a string of decimal digits
RECURSIVE ParseInt(_)
ParseInt(s) ==
    IF Len(s) = 0 THEN 0
    ELSE 10 * ParseInt(SubSeq(s, 1, Len(s) - 1)) + DigitValue(CharAt(s, Len(s)))

\* length of the longest run of characters of one class starting at position i
RECURSIVE RunLength(_, _, _)
RunLength(s, i, digit) ==
    IF i > Len(s) \/ IsDigit(CharAt(s, i)) # digit THEN 0
    ELSE 1 + RunLength(s, i + 1, digit)

\* the class \s, as far as the texts of the model go
IsSpace(c) == c \in {" ", "\t", "\n"}

\* String.prototype.trim
RECURSIVE TrimLeft(_)
TrimLeft(s) ==
    IF Len(s) > 0 /\ IsSpace(CharAt(s, 1)) THEN TrimLeft(SubSeq(s, 2, Len(s))) ELSE s

RECURSIVE TrimRight(_)
TrimRight(s) ==
    IF Len(s) > 0 /\ IsSpace(CharAt(s, Len(s)))
    THEN TrimRight(SubSeq(s, 1, Len(s) - 1)) ELSE s

Trim(s) == TrimRight(TrimLeft(s))

\* name.split('.').pop(): the text after the last '.', the whole name if none
RECURSIVE LastSegment(_)
LastSegment(s) ==
    IF \E i \in 1..Len(s) : CharAt(s, i) = "."
    THEN LastSegment(SubSeq(s, (CHOOSE i \in 1..Len(s) : CharAt(s, i) = "."
                                   /\ \A j \in 1..(i - 1) : CharAt(s, j) # ".") + 1, Len(s)))
    ELSE s

EmptyMap == [x \in {} |-> ""]


(***************************************************************************)
(* Inputs of the model.                                                    *)
(***************************************************************************)
\* the names of the files an import can deliver: img1.jpg, img2.jpg, ...
\* and img10.jpg, whose place in the natural order is after every other
ImageNumber(i) == IF i = MaxImages THEN 10 ELSE i

ImageName(i) == "img" \o NumToStr(ImageNumber(i)) \o ".jpg"

\* event.target.files of a non-empty image selection: the first n names, in
\* this order or in the opposite order
FileLists ==
    UNION {{[i \in 1..n |-> ImageName(i)], [i \in 1..n |-> ImageName(n + 1 - i)]}
           : n \in 1..MaxImages}

\* a sheet findSheet does not find, and a sheet with its sheet_to_json rows
NoSheet == [found |-> FALSE, rows |-> <<>>]

Sheet(rows) == [found |-> TRUE, rows |-> rows]

\* XLSX.utils.sheet_to_json rows; a missing cell reads as ""
GoodMaterialRows == <<[name |-> "Aluminum", id |-> "M01", category |-> "Metal"]>>
BadMaterialRows == <<[name |-> "Aluminum", id |-> "", category |-> "Metal"]>>
GoodProcessingRows == <<[name |-> "Anodize", id |-> "P02"]>>
GoodImplementerRows == <<[name |-> "Alice", id |-> "I03"]>>

\* the workbooks a spreadsheet import can deliver: complete, without the
\* implementer sheet, and with a material sheet none of whose rows is usable
Workbooks ==
    { [material |-> Sheet(GoodMaterialRows), processing |-> Sheet(GoodProcessingRows),
       implementer |-> Sheet(GoodImplementerRows)],
      [material |-> Sheet(GoodMaterialRows), processing |-> Sheet(GoodProcessingRows),
       implementer |-> NoSheet],
      [material |-> Sheet(BadMaterialRows), processing |-> NoSheet,
       implementer |-> NoSheet] }

\* what the user types into the text inputs (typed once, not erased again)
PartNames == {" a"}
Weights == {"5"}
\* what the user can type into the number input: nothing, a number, and
\* text that is no number
ManualNumbers == {"", "3", "1x"}

(***************************************************************************)
(* State of src/app.js: AppState and the form controls of the page.        *)
(***************************************************************************)
VARIABLES
    materials,           \* AppState.materials: name -> id
    processingMethods,   \* AppState.processingMethods: name -> id
    implementers,        \* AppState.implementers: name -> id
    materialCategories,  \* AppState.materialCategories: category -> names
    materialNameToId,    \* AppState.materialNameToId: name -> id
    imageFiles,          \* AppState.imageFiles: the sorted file names
    currentIndex,        \* AppState.currentIndex (0-based)
    processedFiles,      \* AppState.processedFiles: name -> entry
    isReady,             \* AppState.isReady
    inputs,              \* .value of each form control, by element id
    materialOptions,     \* the options of materialSelect after the placeholder
    disabled,            \* .disabled of the buttons and controls
    imagePreview,        \* what the handlers last put on imagePreview /
                         \* imageInfo, or asked displayCurrentImage to show
    history,             \* history variable (no state of the program), since
                         \* the last image import: wentBack, navigatePrevious
                         \* has moved the cursor; numberFresh, autoSetNumber
                         \* has run after the last change of the ledger
    page,                \* the script the page runs: "app.js" or "script.js"
    state,               \* src/script.js: the state object
    dom,                 \* src/script.js: the elements of dom, their .value,
                         \* .disabled and options, and the last alert
    trip,                \* history variable (no state of the program): the
                         \* last confirmation followed, and how far the
                         \* cursor has gone back from its image and returned
    download,            \* downloadZip: stage, how far the export is; files,
                         \* the (name, content) pairs zip.file has been given;
                         \* saved, the pairs of the archive saveAs has
                         \* delivered; reported, the file count of the status
                         \* line (-1: none)
    preview,             \* src/app.js: the decodes displayCurrentImage has
                         \* started and not yet seen settle, and what
                         \* imagePreview and imageInfo show once they settle
    twin                 \* history variable (no state of the program): what
                         \* the user has done on the page of src/app.js and
                         \* has still to do on the page of src/script.js

tableVars == <<materials, processingMethods, implementers, materialCategories,
               materialNameToId>>
imageVars == <<imageFiles, currentIndex, processedFiles, isReady>>
pageVars == <<inputs, materialOptions, disabled, imagePreview>>
scriptVars == <<state, dom>>
asyncVars == <<download, preview, twin>>
vars == <<tableVars, imageVars, pageVars, history, page, scriptVars, trip,
          asyncVars>>


(***************************************************************************)
(* src/app.js: spreadsheet parsing.                                        *)
(***************************************************************************)
\* obj[key] = value
\* a faulty write, for comparison: an existing entry is kept
PutIfAbsent(map, key, value) ==
    [k \in DOMAIN map \cup {key} |-> IF k \in DOMAIN map THEN map[k] ELSE value]

Put(map, key, value) == [k \in DOMAIN map \cup {key} |-> IF k = key THEN value ELSE map[k]]

\* obj[key] inside a template literal: a missing key prints as "undefined"
Lookup(map, key) == IF key \in DOMAIN map THEN map[key] ELSE "undefined"

\* the data.forEach of parseMaterialSheet, from row i on
RECURSIVE parseMaterialSheet(_, _, _)
parseMaterialSheet(rows, i, acc) ==
    IF i > Len(rows) THEN acc
    ELSE LET row == rows[i]
             names == IF row.category \in DOMAIN acc.materialCategories
                      THEN acc.materialCategories[row.category] ELSE <<>>
         IN  parseMaterialSheet(rows, i + 1,
                IF row.name # "" /\ row.id # "" /\ row.category # ""
                THEN [materials |-> Put(acc.materials, row.name, row.id),
                      materialCategories |->
                          Put(acc.materialCategories, row.category,
                              Append(names, row.name))]
                ELSE acc)

\* the data.forEach of parseProcessingSheet and of parseImplementerSheet
RECURSIVE parseNameIdSheet(_, _, _)
parseNameIdSheet(rows, i, acc) ==
    IF i > Len(rows) THEN acc
    ELSE parseNameIdSheet(rows, i + 1,
            IF rows[i].name # "" /\ rows[i].id # ""
            THEN Put(acc, rows[i].name, rows[i].id) ELSE acc)

\* the tables parseExcelData leaves behind: a sheet that is found replaces
\* its table, a sheet that is not found leaves its table as it was
parseExcelData(workbook) ==
    LET m == parseMaterialSheet(workbook.material.rows, 1,
                 [materials |-> EmptyMap, materialCategories |-> EmptyMap])
    IN  [materials |-> IF ~workbook.material.found THEN materials ELSE m.materials,
         materialNameToId |->
             IF ~workbook.material.found THEN materialNameToId ELSE m.materials,
         materialCategories |->
             IF ~workbook.material.found THEN materialCategories
             ELSE m.materialCategories,
         processingMethods |->
             IF ~workbook.processing.found THEN processingMethods
             ELSE parseNameIdSheet(workbook.processing.rows, 1, EmptyMap),
         implementers |->
             IF ~workbook.implementer.found THEN implementers
             ELSE parseNameIdSheet(workbook.implementer.rows, 1, EmptyMap)]

\* the three tables are all non-empty (parseExcelData's final test,
\* checkReadyState's hasExcel)
hasExcel(mat, proc, impl) ==
    DOMAIN mat # {} /\ DOMAIN proc # {} /\ DOMAIN impl # {}

(***************************************************************************)
(* src/app.js: natural sort of the imported files.                         *)
(***************************************************************************)
\* the chunks a.replace(/(\d+)|(\D+)/g, ...) pushes: [$1 || Infinity, $2 || '']
RECURSIVE Chunks(_, _)
Chunks(s, i) ==
    IF i > Len(s) THEN <<>>
    ELSE LET digit == IsDigit(CharAt(s, i))
             n == RunLength(s, i, digit)
         IN  <<[digits |-> digit, text |-> SubSeq(s, i, i + n - 1)]>>
                 \o Chunks(s, i + n)

\* the order localeCompare gives the characters of the model's names
Collation == " _-.0123456789abcdefghijklmnopqrstuvwxyz"

CollationRank(c) ==
    IF \E i \in 1..Len(Collation) : CharAt(Collation, i) = c
    THEN CHOOSE i \in 1..Len(Collation) : CharAt(Collation, i) = c
    ELSE Len(Collation) + 1

RECURSIVE localeCompare(_, _)
localeCompare(a, b) ==
    IF Len(a) = 0 \/ Len(b) = 0 THEN Len(a) - Len(b)
    ELSE IF CharAt(a, 1) # CharAt(b, 1)
         THEN CollationRank(CharAt(a, 1)) - CollationRank(CharAt(b, 1))
         ELSE localeCompare(SubSeq(a, 2, Len(a)), SubSeq(b, 2, Len(b)))

\* the while loop of naturalSort over the remaining chunks
RECURSIVE CompareChunks(_, _)
CompareChunks(ax, bx) ==
    IF Len(ax) = 0 \/ Len(bx) = 0 THEN Len(ax) - Len(bx)
    ELSE LET an == Head(ax)
             bn == Head(bx)
             \* an[0] - bn[0]: a number, +-Infinity, or NaN (falsy, as 0)
             diff == IF an.digits /\ bn.digits
                     THEN ParseInt(an.text) - ParseInt(bn.text)
                     ELSE IF an.digits THEN -1 ELSE IF bn.digits THEN 1 ELSE 0
             nn == IF diff # 0 THEN diff
                   ELSE localeCompare(IF an.digits THEN "" ELSE an.text,
                                      IF bn.digits THEN "" ELSE bn.text)
         IN  IF nn # 0 THEN nn ELSE CompareChunks(Tail(ax), Tail(bx))

naturalSort(a, b) == CompareChunks(Chunks(a, 1), Chunks(b, 1))

\* files.sort((a, b) => naturalSort(a.name, b.name)): a stable sort
RECURSIVE Insert(_, _)
Insert(sorted, x) ==
    IF Len(sorted) = 0 THEN <<x>>
    ELSE IF naturalSort(sorted[Len(sorted)], x) <= 0 THEN Append(sorted, x)
         ELSE Append(Insert(SubSeq(sorted, 1, Len(sorted) - 1), x), sorted[Len(sorted)])

RECURSIVE SortFiles(_)
SortFiles(files) ==
    IF Len(files) = 0 THEN <<>>
    ELSE Insert(SortFiles(SubSeq(files, 1, Len(files) - 1)), files[Len(files)])


(***************************************************************************)
(* src/app.js: the filename engine.                                        *)
(***************************************************************************)
\* validateForm over the values of the form controls
validateForm(in) ==
    /\ Trim(in.partNameInput) # ""
    /\ Trim(in.weightInput) # ""
    /\ in.implementerSelect # ""
    /\ in.materialSelect # ""
    /\ in.processingSelect # ""

\* a faulty match, for comparison: /^(\d+)/, the separator is not asked for
MatchNumberLoose(newName) == SubSeq(newName, 1, RunLength(newName, 1, TRUE))

\* data.newName.match(/^(\d+)_/): the digits matched, "" when there is no match
MatchNumber(newName) ==
    LET n == RunLength(newName, 1, TRUE)
    IN  IF n >= 1 /\ Len(newName) > n /\ CharAt(newName, n + 1) = "_"
        THEN SubSeq(newName, 1, n) ELSE ""

\* numberCounts after the forEach over the processed files
numberCounts(files) ==
    LET matched == {k \in DOMAIN files : MatchNumber(files[k].newName) # ""}
        num(k) == ParseInt(MatchNumber(files[k].newName))
    IN  [n \in {num(k) : k \in matched} |->
            Cardinality({k \in matched : num(k) = n})]

\* faulty rules, for comparison: a number is kept until it occurs three times
getNextNumberLate(files) ==
    LET counts == numberCounts(files)
        maxNumber == CHOOSE n \in DOMAIN counts : \A m \in DOMAIN counts : m <= n
    IN  IF DOMAIN counts = {} THEN 1
        ELSE IF counts[maxNumber] < 3 THEN maxNumber ELSE maxNumber + 1

\* the smallest number is taken for the largest
getNextNumberMin(files) ==
    LET counts == numberCounts(files)
        minNumber == CHOOSE n \in DOMAIN counts : \A m \in DOMAIN counts : n <= m
    IN  IF DOMAIN counts = {} THEN 1
        ELSE IF counts[minNumber] < 2 THEN minNumber ELSE minNumber + 1

\* a full pair is followed by the number after the next
getNextNumberSkip(files) ==
    LET counts == numberCounts(files)
        maxNumber == CHOOSE n \in DOMAIN counts : \A m \in DOMAIN counts : m <= n
    IN  IF DOMAIN counts = {} THEN 1
        ELSE IF counts[maxNumber] < 2 THEN maxNumber ELSE maxNumber + 2

\* the number never advances
getNextNumberStuck(files) ==
    LET counts == numberCounts(files)
        maxNumber == CHOOSE n \in DOMAIN counts : \A m \in DOMAIN counts : m <= n
    IN  IF DOMAIN counts = {} THEN 1 ELSE maxNumber

\* getNextNumber over a ledger (pair logic 1, 1, 2, 2, 3, 3, ...)
getNextNumber(files) ==
    LET counts == numberCounts(files)
        maxNumber == CHOOSE n \in DOMAIN counts : \A m \in DOMAIN counts : m <= n
    IN  IF DOMAIN counts = {} THEN 1
        ELSE IF counts[maxNumber] < 2 THEN maxNumber ELSE maxNumber + 1

\* a faulty generateFilename, for comparison: the number input is not read
generateFilenameAuto(in, files, impl, matIds, proc) ==
    LET partName == Trim(in.partNameInput)
        weight == Trim(in.weightInput)
    IN  IF partName = "" \/ weight = "" \/ in.implementerSelect = ""
           \/ in.materialSelect = "" \/ in.processingSelect = ""
        THEN ""
        ELSE NumToStr(getNextNumber(files))
             \o "_" \o partName \o "_" \o weight \o "_" \o in.unitSelect
             \o "_" \o Lookup(matIds, in.materialSelect)
             \o "_" \o Lookup(proc, in.processingSelect)
             \o "_" \o Lookup(impl, in.implementerSelect)
             \o "_" \o in.photoTypeSelect \o "_" \o in.notesSelect

\* a faulty generateFilename, for comparison: the weight is put before the
\* part name
generateFilenameSwapped(in, files, impl, matIds, proc) ==
    LET number == IF in.numberInput # "" THEN in.numberInput
                  ELSE NumToStr(getNextNumber(files))
        partName == Trim(in.partNameInput)
        weight == Trim(in.weightInput)
    IN  IF partName = "" \/ weight = "" \/ in.implementerSelect = ""
           \/ in.materialSelect = "" \/ in.processingSelect = ""
        THEN ""
        ELSE number \o "_" \o weight \o "_" \o partName \o "_" \o in.unitSelect
             \o "_" \o Lookup(matIds, in.materialSelect)
             \o "_" \o Lookup(proc, in.processingSelect)
             \o "_" \o Lookup(impl, in.implementerSelect)
             \o "_" \o in.photoTypeSelect \o "_" \o in.notesSelect

\* generateFilename over the form values, the ledger and the lookup tables
generateFilename(in, files, impl, matIds, proc) ==
    LET number == IF in.numberInput # "" THEN in.numberInput
                  ELSE NumToStr(getNextNumber(files))
        partName == Trim(in.partNameInput)
        weight == Trim(in.weightInput)
    IN  IF partName = "" \/ weight = "" \/ in.implementerSelect = ""
           \/ in.materialSelect = "" \/ in.processingSelect = ""
        THEN ""
        ELSE number \o "_" \o partName \o "_" \o weight \o "_" \o in.unitSelect
             \o "_" \o Lookup(matIds, in.materialSelect)
             \o "_" \o Lookup(proc, in.processingSelect)
             \o "_" \o Lookup(impl, in.implementerSelect)
             \o "_" \o in.photoTypeSelect \o "_" \o in.notesSelect

\* a faulty autoSetNumber, for comparison: a number input that holds a value
\* is left alone
autoSetNumberKeep(in, files) ==
    [in EXCEPT !.numberInput = IF @ = "" THEN NumToStr(getNextNumber(files)) ELSE @]

\* autoSetNumber: the form values after numberInput.value = getNextNumber()
autoSetNumber(in, files) ==
    [in EXCEPT !.numberInput = NumToStr(getNextNumber(files))]

\* updateApplyButtonState: applyButton.disabled = !validateForm()
updateApplyButtonState(dis, in) == [dis EXCEPT !.applyButton = ~validateForm(in)]

\* updateNavigationButtons
updateNavigationButtons(dis, index, in) ==
    updateApplyButtonState([dis EXCEPT !.prevButton = (index = 0)], in)

\* a faulty cursor, for comparison: always the first file
FirstFile == imageFiles[1]

\* the file under the cursor
CurrentFile == imageFiles[currentIndex + 1]

(***************************************************************************)
(* Initial state: the page as loaded.  Inputs are empty, selects are on    *)
(* their placeholder, unit / photo type / notes on their default option,   *)
(* and controls and buttons are disabled until enableInputFields,          *)
(* updateApplyButtonState and updateDownloadButton enable them.            *)
(***************************************************************************)
\* src/script.js: the state object as declared, and the elements of dom
\* after init() has run updateUIState
InitialState ==
    [materials |-> EmptyMap, materialCategories |-> EmptyMap,
     materialNameToId |-> EmptyMap, processing |-> EmptyMap,
     images |-> <<>>, currentIndex |-> 0, renamedFiles |-> EmptyMap]

InitialDom ==
    [inputPartName |-> "", inputWeight |-> "", inputUnit |-> "kg",
     inputCategory |-> "", inputMaterial |-> "", inputProcessing |-> "",
     inputPhotoType |-> "P", inputNotes |-> "0", materialOptions |-> {},
     inputsDisabled |-> TRUE, inputMaterialDisabled |-> TRUE,
     btnApply |-> TRUE, btnPrev |-> TRUE, btnNext |-> TRUE,
     btnDownload |-> TRUE, previewImage |-> "", alert |-> ""]

\* no confirmation is followed
NoTrip ==
    [stage |-> "idle", index |-> 0, form |-> EmptyMap, entry |-> "",
     ledger |-> EmptyMap, closed |-> FALSE]

\* no archive has been asked for
NoDownload == [stage |-> "idle", files |-> {}, saved |-> {}, reported |-> -1]

\* no decode has been started; the preview shows its placeholder
NoPreview == [pending |-> {}, shown |-> "placeholder", info |-> <<>>]

\* nothing is left to do on the other page
NoAction == [kind |-> "none", id |-> "", value |-> "", files |-> <<>>]

PageLoaded ==
    /\ materials = EmptyMap
    /\ processingMethods = EmptyMap
    /\ implementers = EmptyMap
    /\ materialCategories = EmptyMap
    /\ materialNameToId = EmptyMap
    /\ imageFiles = <<>>
    /\ currentIndex = 0
    /\ processedFiles = EmptyMap
    /\ isReady = FALSE
    /\ inputs = [numberInput |-> "", implementerSelect |-> "", partNameInput |-> "",
                 weightInput |-> "", unitSelect |-> "kg",
                 materialCategorySelect |-> "", materialSelect |-> "",
                 processingSelect |-> "", photoTypeSelect |-> "P", notesSelect |-> "0"]
    /\ materialOptions = {}
    /\ disabled = [inputs |-> TRUE, materialSelect |-> TRUE, prevButton |-> TRUE,
                   applyButton |-> TRUE, downloadButton |-> TRUE]
    /\ imagePreview = "placeholder"
    /\ history = [wentBack |-> FALSE, numberFresh |-> FALSE]
    /\ state = InitialState
    /\ dom = InitialDom
    /\ trip = NoTrip
    /\ download = NoDownload
    /\ preview = NoPreview
    /\ twin = NoAction

\* the page running src/app.js
Init == page = "app.js" /\ PageLoaded


(***************************************************************************)
(* src/app.js: the event handlers.                                         *)
(***************************************************************************)
Range(seq) == {seq[i] : i \in 1..Len(seq)}

\* handleExcelUpload, from the moment readExcelFile has delivered the workbook:
\* parseExcelData, then checkReadyState unless parseExcelData threw.
\* updateSelect rebuilds the options of the select of every sheet found,
\* which puts that select back on its placeholder.
handleExcelUpload(workbook) ==
    LET t == parseExcelData(workbook)
        ok == hasExcel(t.materials, t.processingMethods, t.implementers)
    IN  /\ materials' = t.materials
        /\ materialNameToId' = t.materialNameToId
        /\ materialCategories' = t.materialCategories
        /\ processingMethods' = t.processingMethods
        /\ implementers' = t.implementers
        /\ inputs' = [inputs EXCEPT
               !.materialCategorySelect =
                   IF ~workbook.material.found THEN @ ELSE "",
               !.processingSelect = IF ~workbook.processing.found THEN @ ELSE "",
               !.implementerSelect = IF ~workbook.implementer.found THEN @ ELSE ""]
        /\ isReady' = IF ok THEN Len(imageFiles) > 0 ELSE isReady
        /\ disabled' = IF ok /\ isReady' THEN [disabled EXCEPT !.inputs = FALSE]
                       ELSE disabled
        /\ UNCHANGED <<imageFiles, currentIndex, processedFiles, materialOptions,
                       imagePreview, history, page, scriptVars>>

\* handleMaterialCategoryChange: the user picks another option of
\* materialCategorySelect
handleMaterialCategoryChange(category) ==
    /\ ~disabled.inputs
    /\ category \in DOMAIN materialCategories \cup {""}
    /\ category # inputs.materialCategorySelect
    /\ materialOptions' = IF category # "" THEN Range(materialCategories[category])
                          ELSE {}
    /\ inputs' = [inputs EXCEPT !.materialCategorySelect = category,
                                !.materialSelect = ""]
    /\ disabled' = updateApplyButtonState(
                       [disabled EXCEPT !.materialSelect = (category = "")], inputs')
    /\ UNCHANGED <<tableVars, imageVars, imagePreview, history, page, scriptVars>>

\* the controls whose input / change events run updateFilenamePreview, as far
\* as the user can give them another value
InputIds == {"numberInput", "partNameInput", "weightInput", "implementerSelect",
             "materialSelect", "processingSelect"}

\* the values the user gives a control: the typed texts, and for a select
\* one of its options; only implementerSelect is also put back on its
\* placeholder by the user
InputValues(id) ==
    CASE id = "numberInput" -> ManualNumbers
      [] id = "partNameInput" -> PartNames
      [] id = "weightInput" -> Weights
      [] id = "implementerSelect" -> DOMAIN implementers \cup {""}
      [] id = "materialSelect" -> materialOptions
      [] id = "processingSelect" -> DOMAIN processingMethods

\* an input or change event of a form control: updateFilenamePreview
inputEvent(id, value) ==
    /\ IF id = "materialSelect" THEN ~disabled.materialSelect ELSE ~disabled.inputs
    /\ value # inputs[id]
    /\ inputs' = [inputs EXCEPT ![id] = value]
    /\ disabled' = updateApplyButtonState(disabled, inputs')
    /\ history' = IF id = "numberInput" THEN [history EXCEPT !.numberFresh = FALSE]
                  ELSE history
    /\ UNCHANGED <<tableVars, imageVars, materialOptions, imagePreview, page,
                   scriptVars>>

\* a faulty handleImageUpload, for comparison: the ledger is kept
handleImageUploadKeep(files) ==
    /\ imageFiles' = SortFiles(files)
    /\ currentIndex' = 0
    /\ processedFiles' = processedFiles
    /\ isReady' = hasExcel(materials, processingMethods, implementers)
    /\ IF isReady'
       THEN /\ getNextNumber(processedFiles') <= MaxNumber
            /\ imagePreview' = imageFiles'[1]
            /\ inputs' = autoSetNumber(inputs, processedFiles')
            /\ disabled' = updateNavigationButtons(
                               [disabled EXCEPT !.inputs = FALSE], 0, inputs')
       ELSE UNCHANGED <<imagePreview, inputs, disabled>>
    /\ history' = [wentBack |-> FALSE, numberFresh |-> isReady']
    /\ UNCHANGED <<tableVars, materialOptions, page, scriptVars>>

\* handleImageUpload for a non-empty selection of files
handleImageUpload(files) ==
    /\ imageFiles' = SortFiles(files)
    /\ currentIndex' = 0
    /\ processedFiles' = EmptyMap
    /\ isReady' = hasExcel(materials, processingMethods, implementers)
    /\ IF isReady'
       THEN /\ getNextNumber(processedFiles') <= MaxNumber
            /\ imagePreview' = imageFiles'[1]
            /\ inputs' = autoSetNumber(inputs, processedFiles')
            /\ disabled' = updateNavigationButtons(
                               [disabled EXCEPT !.inputs = FALSE], 0, inputs')
       ELSE UNCHANGED <<imagePreview, inputs, disabled>>
    /\ history' = [wentBack |-> FALSE, numberFresh |-> isReady']
    /\ UNCHANGED <<tableVars, materialOptions, page, scriptVars>>

\* navigatePrevious (click on prevButton)
navigatePrevious ==
    /\ ~disabled.prevButton
    /\ currentIndex > 0
    /\ getNextNumber(processedFiles) <= MaxNumber
    /\ currentIndex' = currentIndex - 1
    /\ imagePreview' = imageFiles[currentIndex' + 1]
    /\ inputs' = autoSetNumber(inputs, processedFiles)
    /\ disabled' = updateNavigationButtons(disabled, currentIndex', inputs')
    /\ history' = [wentBack |-> TRUE, numberFresh |-> TRUE]
    /\ UNCHANGED <<tableVars, imageFiles, processedFiles, isReady, materialOptions,
                   page, scriptVars>>

\* a faulty applyAndNext, for comparison: the cursor stays where it is
applyAndNextStaying ==
    /\ ~disabled.applyButton
    /\ IF validateForm(inputs) /\ Len(imageFiles) > 0
       THEN LET newFilename == generateFilename(inputs, processedFiles, implementers,
                                                materialNameToId, processingMethods)
                ext == LastSegment(CurrentFile)
            IN  /\ inputs.numberInput = "" => getNextNumber(processedFiles) <= MaxNumber
                /\ processedFiles' = Put(processedFiles, CurrentFile,
                       [newName |-> newFilename, extension |-> ext,
                        blob |-> CurrentFile])
                /\ IF currentIndex < Len(imageFiles) - 1
                   THEN /\ getNextNumber(processedFiles') <= MaxNumber
                        /\ currentIndex' = currentIndex
                        /\ imagePreview' = imageFiles[currentIndex' + 1]
                        /\ inputs' = autoSetNumber(inputs, processedFiles')
                        /\ disabled' = [updateNavigationButtons(disabled, currentIndex',
                                                                inputs')
                                        EXCEPT !.downloadButton = FALSE]
                        /\ history' = [history EXCEPT !.numberFresh = TRUE]
                   ELSE \* showCompletionMessage, updateDownloadButton
                        /\ imagePreview' = "completion"
                        /\ disabled' = [disabled EXCEPT !.applyButton = TRUE,
                                                        !.downloadButton = FALSE]
                        /\ history' = [history EXCEPT !.numberFresh = FALSE]
                        /\ UNCHANGED <<currentIndex, inputs>>
                /\ UNCHANGED <<tableVars, imageFiles, isReady, materialOptions,
                               page, scriptVars>>
       ELSE \* alert: nothing is written
            UNCHANGED vars

\* applyAndNext (click on applyButton)
applyAndNext ==
    /\ ~disabled.applyButton
    /\ IF validateForm(inputs) /\ Len(imageFiles) > 0
       THEN LET newFilename == generateFilename(inputs, processedFiles, implementers,
                                                materialNameToId, processingMethods)
                ext == LastSegment(CurrentFile)
            IN  /\ inputs.numberInput = "" => getNextNumber(processedFiles) <= MaxNumber
                /\ processedFiles' = Put(processedFiles, CurrentFile,
                       [newName |-> newFilename, extension |-> ext,
                        blob |-> CurrentFile])
                /\ IF currentIndex < Len(imageFiles) - 1
                   THEN /\ getNextNumber(processedFiles') <= MaxNumber
                        /\ currentIndex' = currentIndex + 1
                        /\ imagePreview' = imageFiles[currentIndex' + 1]
                        /\ inputs' = autoSetNumber(inputs, processedFiles')
                        /\ disabled' = [updateNavigationButtons(disabled, currentIndex',
                                                                inputs')
                                        EXCEPT !.downloadButton = FALSE]
                        /\ history' = [history EXCEPT !.numberFresh = TRUE]
                   ELSE \* showCompletionMessage, updateDownloadButton
                        /\ imagePreview' = "completion"
                        /\ disabled' = [disabled EXCEPT !.applyButton = TRUE,
                                                        !.downloadButton = FALSE]
                        /\ history' = [history EXCEPT !.numberFresh = FALSE]
                        /\ UNCHANGED <<currentIndex, inputs>>
                /\ UNCHANGED <<tableVars, imageFiles, isReady, materialOptions,
                               page, scriptVars>>
       ELSE \* alert: nothing is written
            UNCHANGED vars

\* every handler, the number input included
Next ==
    \/ /\ \E workbook \in Workbooks : handleExcelUpload(workbook)
       /\ UNCHANGED <<trip, asyncVars>>
    \/ /\ \E files \in FileLists : handleImageUpload(files)
       /\ UNCHANGED <<trip, asyncVars>>
    \/ /\ \E category \in DOMAIN materialCategories : handleMaterialCategoryChange(category)
       /\ UNCHANGED <<trip, asyncVars>>
    \/ /\ \E id \in InputIds : \E value \in InputValues(id) : inputEvent(id, value)
       /\ UNCHANGED <<trip, asyncVars>>
    \/ /\ navigatePrevious
       /\ UNCHANGED <<trip, asyncVars>>
    \/ /\ applyAndNext
       /\ UNCHANGED <<trip, asyncVars>>

Spec == Init /\ [][Next]_vars

\* the handlers when the user leaves the number input alone
AutoNext ==
    \/ /\ \E workbook \in Workbooks : handleExcelUpload(workbook)
       /\ UNCHANGED <<trip, asyncVars>>
    \/ /\ \E files \in FileLists : handleImageUpload(files)
       /\ UNCHANGED <<trip, asyncVars>>
    \/ /\ \E category \in DOMAIN materialCategories : handleMaterialCategoryChange(category)
       /\ UNCHANGED <<trip, asyncVars>>
    \/ /\ \E id \in InputIds \ {"numberInput"} :
              \E value \in InputValues(id) : inputEvent(id, value)
       /\ UNCHANGED <<trip, asyncVars>>
    \/ /\ navigatePrevious
       /\ UNCHANGED <<trip, asyncVars>>
    \/ /\ applyAndNext
       /\ UNCHANGED <<trip, asyncVars>>

AutoSpec == Init /\ [][AutoNext]_vars

(***************************************************************************)
(* src/script.js (simple variant).  Its sequence number is the position of *)
(* the image; its ledger maps the original name to the full new name.      *)
(* The column titles and the default category of the masters are written   *)
(* in Latin letters here.                                                  *)
(***************************************************************************)
ColMaterialName == "MaterialName"
ColMaterial == "Material"
ColMaterialID == "MaterialID"
ColMaterialCategory == "MaterialCategory"
ColProcessingName == "ProcessingName"
ColProcessing == "Processing"
ColProcessingID == "ProcessingID"
CommonCategory == "Common"

\* the rows readXlsxFile delivers for a material master: with a row lacking
\* its id, without the category column, and without the id column
MaterialMasters ==
    { << <<ColMaterialName, ColMaterialID, ColMaterialCategory>>,
         <<"Aluminum", "M01", "Metal">>, <<"Steel", "", "Metal">> >>,
      << <<ColMaterial, ColMaterialID>>, <<"Steel", "M02">> >>,
      << <<ColMaterialName, ColMaterialCategory>>, <<"Aluminum", "Metal">> >> }

\* the rows of a processing master: complete, and with the header row only
ProcessingMasters ==
    { << <<ColProcessingName, ColProcessingID>>, <<"Anodize", "P02">> >>,
      << <<ColProcessing, ColProcessingID>> >> }

\* what the user types into the text inputs of script.js
ScriptPartNames == {" a:b"}
ScriptWeights == {"5", "5%"}

\* header.indexOf(title) + 1: 0 when the title is not in the header
IndexOf(header, title) ==
    IF \E i \in 1..Len(header) : header[i] = title
    THEN CHOOSE i \in 1..Len(header) :
             header[i] = title /\ \A j \in 1..(i - 1) : header[j] # title
    ELSE 0

\* row[col]: "" stands for a missing cell
Cell(row, col) == IF col >= 1 /\ col <= Len(row) THEN row[col] ELSE ""

\* the loop of parseMaterialMaster over rows[i..]
RECURSIVE parseMaterialRows(_, _, _, _, _, _)
parseMaterialRows(rows, i, colName, colId, colCat, acc) ==
    IF i > Len(rows) THEN acc
    ELSE LET name == Cell(rows[i], colName)
             id == Cell(rows[i], colId)
             cat == IF colCat # 0 THEN Cell(rows[i], colCat) ELSE CommonCategory
             catStr == IF cat # "" THEN cat ELSE CommonCategory
             old == IF catStr \in DOMAIN acc.materialCategories
                    THEN acc.materialCategories[catStr] ELSE <<>>
         IN  parseMaterialRows(rows, i + 1, colName, colId, colCat,
                 IF name # "" /\ id # ""
                 THEN [acc EXCEPT
                          !.materialCategories = Put(@, catStr, Append(old, name)),
                          !.materialNameToId = Put(@, name, id),
                          !.materials = Put(@, name, id)]
                 ELSE acc)

\* parseMaterialMaster: the state after it, whether it rebuilt the category
\* dropdown, and the alert it showed
parseMaterialMaster(st, rows) ==
    LET header == rows[1]
        colName == IF IndexOf(header, ColMaterialName) # 0
                   THEN IndexOf(header, ColMaterialName)
                   ELSE IndexOf(header, ColMaterial)
        colId == IndexOf(header, ColMaterialID)
        colCat == IndexOf(header, ColMaterialCategory)
    IN  IF Len(rows) < 2 THEN [st |-> st, rebuilt |-> FALSE, alert |-> ""]
        ELSE IF colName = 0 \/ colId = 0
        THEN [st |-> st, rebuilt |-> FALSE, alert |-> "columns"]
        ELSE [st |-> parseMaterialRows(rows, 2, colName, colId, colCat,
                         [st EXCEPT !.materials = EmptyMap,
                                    !.materialCategories = EmptyMap,
                                    !.materialNameToId = EmptyMap]),
              rebuilt |-> TRUE, alert |-> ""]

\* the loop of parseProcessingMaster over rows[i..]
RECURSIVE parseProcessingRows(_, _, _, _, _)
parseProcessingRows(rows, i, colName, colId, acc) ==
    IF i > Len(rows) THEN acc
    ELSE LET name == Cell(rows[i], colName)
             id == Cell(rows[i], colId)
         IN  parseProcessingRows(rows, i + 1, colName, colId,
                 IF name # "" /\ id # ""
                 THEN [acc EXCEPT !.processing = Put(@, name, id)]
                 ELSE acc)

\* parseProcessingMaster
parseProcessingMaster(st, rows) ==
    LET header == rows[1]
        colName == IF IndexOf(header, ColProcessingName) # 0
                   THEN IndexOf(header, ColProcessingName)
                   ELSE IndexOf(header, ColProcessing)
        colId == IndexOf(header, ColProcessingID)
    IN  IF Len(rows) < 2 THEN [st |-> st, rebuilt |-> FALSE, alert |-> ""]
        ELSE IF colName = 0 \/ colId = 0
        THEN [st |-> st, rebuilt |-> FALSE, alert |-> "columns"]
        ELSE [st |-> parseProcessingRows(rows, 2, colName, colId,
                         [st EXCEPT !.processing = EmptyMap]),
              rebuilt |-> TRUE, alert |-> ""]

\* files.sort((a, b) => a.name.localeCompare(b.name))
RECURSIVE InsertByLocale(_, _)
InsertByLocale(sorted, x) ==
    IF Len(sorted) = 0 THEN <<x>>
    ELSE IF localeCompare(sorted[Len(sorted)], x) <= 0 THEN Append(sorted, x)
         ELSE Append(InsertByLocale(SubSeq(sorted, 1, Len(sorted) - 1), x),
                     sorted[Len(sorted)])

RECURSIVE SortByLocale(_)
SortByLocale(files) ==
    IF Len(files) = 0 THEN <<>>
    ELSE InsertByLocale(SortByLocale(SubSeq(files, 1, Len(files) - 1)),
                        files[Len(files)])

\* isReady()
isReady_script(st) ==
    DOMAIN st.materials # {} /\ DOMAIN st.processing # {} /\ Len(st.images) > 0

\* getInputValues
getInputValues(d) ==
    [partName |-> Trim(d.inputPartName), weight |-> Trim(d.inputWeight),
     unit |-> d.inputUnit, category |-> d.inputCategory,
     material |-> d.inputMaterial, processing |-> d.inputProcessing,
     photoType |-> d.inputPhotoType, notes |-> d.inputNotes]

\* the class [0-9a-zA-Z.-]
WeightChars == "0123456789abcdefghijklmnopqrstuvwxyzABCDEFGHIJKLMNOPQRSTUVWXYZ.-"

IsWeightChar(c) == \E i \in 1..Len(WeightChars) : CharAt(WeightChars, i) = c

\* validateInputs: the value it returns (btnApply.disabled is its negation)
validateInputs(d) ==
    LET values == getInputValues(d)
    IN  /\ values.partName # ""
        /\ values.weight # ""
        /\ \A i \in 1..Len(values.weight) : IsWeightChar(CharAt(values.weight, i))
        /\ values.category # ""
        /\ values.material # ""
        /\ values.processing # ""

\* the class [<>:"/\\|?*\x00-\x1f]
IsForbidden(c) == c \in {"<", ">", ":", "\"", "/", "\\", "|", "?", "*", "\t", "\n"}

\* str.replace(/[<>:"/\\|?*\x00-\x1f]/g, '')
RECURSIVE RemoveForbidden(_)
RemoveForbidden(str) ==
    IF Len(str) = 0 THEN ""
    ELSE (IF IsForbidden(CharAt(str, 1)) THEN "" ELSE CharAt(str, 1))
             \o RemoveForbidden(SubSeq(str, 2, Len(str)))

\* str.replace(/\s+/g, ' ')
RECURSIVE CollapseSpaces(_)
CollapseSpaces(str) ==
    IF Len(str) = 0 THEN ""
    ELSE IF IsSpace(CharAt(str, 1))
         THEN " " \o CollapseSpaces(TrimLeft(str))
         ELSE CharAt(str, 1) \o CollapseSpaces(SubSeq(str, 2, Len(str)))

\* sanitizeFilename
sanitizeFilename(str) ==
    IF str = "" THEN "untitled" ELSE Trim(CollapseSpaces(RemoveForbidden(str)))

\* table[name] || '???'
LookupOrPlaceholder(table, name) ==
    IF name \in DOMAIN table /\ table[name] # "" THEN table[name] ELSE "???"

\* a faulty generateNewFilename, for comparison: the number is one more than
\* the number of ledger entries
generateNewFilenameCounting(st, d) ==
    LET v == getInputValues(d)
    IN  IF ~isReady_script(st) THEN ""
        ELSE IF v.partName = "" \/ v.material = "" \/ v.processing = "" THEN "..."
        ELSE NumToStr(Cardinality(DOMAIN st.renamedFiles) + 1)
             \o "_" \o sanitizeFilename(v.partName)
             \o "_" \o sanitizeFilename(v.weight)
             \o "_" \o v.unit
             \o "_" \o LookupOrPlaceholder(st.materialNameToId, v.material)
             \o "_" \o LookupOrPlaceholder(st.processing, v.processing)
             \o "_" \o v.photoType \o "_" \o v.notes

\* generateNewFilename
generateNewFilename(st, d) ==
    LET v == getInputValues(d)
    IN  IF ~isReady_script(st) THEN ""
        ELSE IF v.partName = "" \/ v.material = "" \/ v.processing = "" THEN "..."
        ELSE NumToStr(st.currentIndex + 1)
             \o "_" \o sanitizeFilename(v.partName)
             \o "_" \o sanitizeFilename(v.weight)
             \o "_" \o v.unit
             \o "_" \o LookupOrPlaceholder(st.materialNameToId, v.material)
             \o "_" \o LookupOrPlaceholder(st.processing, v.processing)
             \o "_" \o v.photoType \o "_" \o v.notes

\* displayCurrentImage: the image the viewer shows
displayCurrentImage(st, d) ==
    [d EXCEPT !.previewImage =
        IF Len(st.images) = 0 THEN "" ELSE st.images[st.currentIndex + 1]]

\* updateUIState
updateUIState(st, d) ==
    LET ready == isReady_script(st)
    IN  [d EXCEPT !.inputsDisabled = ~ready,
                  !.inputMaterialDisabled = ~ready \/ d.inputCategory = "",
                  !.btnPrev = ~ready \/ st.currentIndex = 0,
                  !.btnNext = ~ready \/ st.currentIndex = Len(st.images) - 1,
                  !.btnDownload = (DOMAIN st.renamedFiles = {})]

\* handleMaterialLoad, from the moment readXlsxFile has delivered the rows.
\* Rebuilding the category dropdown puts it back on its placeholder.
handleMaterialLoad(rows) ==
    LET parsed == parseMaterialMaster(state, rows)
    IN  /\ state' = parsed.st
        /\ dom' = updateUIState(state',
                      [dom EXCEPT !.inputCategory = IF parsed.rebuilt THEN "" ELSE @,
                                  !.alert = parsed.alert])
        /\ UNCHANGED <<tableVars, imageVars, pageVars, history, page>>

\* handleProcessingLoad
handleProcessingLoad(rows) ==
    LET parsed == parseProcessingMaster(state, rows)
    IN  /\ state' = parsed.st
        /\ dom' = updateUIState(state',
                      [dom EXCEPT !.inputProcessing = IF parsed.rebuilt THEN "" ELSE @,
                                  !.alert = parsed.alert])
        /\ UNCHANGED <<tableVars, imageVars, pageVars, history, page>>

\* a faulty handleImagesLoad, for comparison: the ledger is kept
handleImagesLoadKeep(files) ==
    /\ state' = [state EXCEPT !.images = SortByLocale(files),
                              !.currentIndex = 0]
    /\ dom' = updateUIState(state',
                  displayCurrentImage(state', [dom EXCEPT !.alert = ""]))
    /\ UNCHANGED <<tableVars, imageVars, pageVars, history, page>>

\* handleImagesLoad for a non-empty selection of files
handleImagesLoad(files) ==
    /\ state' = [state EXCEPT !.images = SortByLocale(files),
                              !.currentIndex = 0,
                              !.renamedFiles = EmptyMap]
    /\ dom' = updateUIState(state',
                  displayCurrentImage(state', [dom EXCEPT !.alert = ""]))
    /\ UNCHANGED <<tableVars, imageVars, pageVars, history, page>>

\* a change event of the category dropdown: validateInputs and
\* updateRenamePreview, then handleCategoryChange
handleCategoryChange(category) ==
    /\ ~dom.inputsDisabled
    /\ category \in DOMAIN state.materialCategories \cup {""}
    /\ category # dom.inputCategory
    /\ LET known == category # "" /\ category \in DOMAIN state.materialCategories
           d == [dom EXCEPT !.inputCategory = category,
                            !.inputMaterial = "",
                            !.materialOptions =
                                IF known THEN Range(state.materialCategories[category])
                                ELSE {},
                            !.inputMaterialDisabled = ~known,
                            !.alert = ""]
       IN  dom' = [d EXCEPT !.btnApply = ~validateInputs(d)]
    /\ UNCHANGED <<tableVars, imageVars, pageVars, history, page, state>>

\* the other controls the user gives a value, and the values
ScriptInputIds == {"inputPartName", "inputWeight", "inputMaterial", "inputProcessing"}

ScriptInputValues(id) ==
    CASE id = "inputPartName" -> ScriptPartNames
      [] id = "inputWeight" -> ScriptWeights
      [] id = "inputMaterial" -> dom.materialOptions
      [] id = "inputProcessing" -> DOMAIN state.processing

\* an input or change event of a control: validateInputs, updateRenamePreview
inputChange(id, value) ==
    /\ IF id = "inputMaterial" THEN ~dom.inputMaterialDisabled ELSE ~dom.inputsDisabled
    /\ value # dom[id]
    /\ LET d == [dom EXCEPT ![id] = value, !.alert = ""]
       IN  dom' = [d EXCEPT !.btnApply = ~validateInputs(d)]
    /\ UNCHANGED <<tableVars, imageVars, pageVars, history, page, state>>

\* applyAndNext of script.js (click on btnApply, or Enter while it is enabled)
applyAndNext_script ==
    /\ ~dom.btnApply
    /\ IF validateInputs(dom) /\ Len(state.images) > 0
       THEN LET currentFile == state.images[state.currentIndex + 1]
                newFullname == generateNewFilename(state, dom) \o "."
                                   \o LastSegment(currentFile)
                last == ~(state.currentIndex < Len(state.images) - 1)
            IN  /\ state' = [state EXCEPT
                       !.renamedFiles = Put(@, currentFile, newFullname),
                       !.currentIndex = IF last THEN @ ELSE @ + 1]
                /\ dom' = updateUIState(state',
                       IF last THEN [dom EXCEPT !.alert = "complete"]
                       ELSE displayCurrentImage(state', [dom EXCEPT !.alert = ""]))
       ELSE \* validateInputs disables btnApply and nothing is written
            /\ dom' = [dom EXCEPT !.btnApply = TRUE, !.alert = ""]
            /\ UNCHANGED state
    /\ UNCHANGED <<tableVars, imageVars, pageVars, history, page>>

\* a faulty navigateImage, for comparison: the new index is not compared
\* with the length
navigateImageUnbounded(delta) ==
    LET newIndex == state.currentIndex + delta
    IN  /\ newIndex >= 0
        /\ newIndex <= Len(state.images)
        /\ state' = [state EXCEPT !.currentIndex = newIndex]
        /\ dom' = [dom EXCEPT !.alert = "", !.previewImage = ""]
        /\ UNCHANGED <<tableVars, imageVars, pageVars, history, page>>

\* navigateImage (click on btnPrev / btnNext, or the arrow keys)
navigateImage(delta) ==
    LET newIndex == state.currentIndex + delta
    IN  /\ newIndex >= 0
        /\ newIndex < Len(state.images)
        /\ state' = [state EXCEPT !.currentIndex = newIndex]
        /\ dom' = updateUIState(state',
                      displayCurrentImage(state', [dom EXCEPT !.alert = ""]))
        /\ UNCHANGED <<tableVars, imageVars, pageVars, history, page>>

\* the page running src/script.js
ScriptInit == page = "script.js" /\ PageLoaded

ScriptNext ==
    \/ /\ \E rows \in MaterialMasters : handleMaterialLoad(rows)
       /\ UNCHANGED <<trip, asyncVars>>
    \/ /\ \E rows \in ProcessingMasters : handleProcessingLoad(rows)
       /\ UNCHANGED <<trip, asyncVars>>
    \/ /\ \E files \in FileLists : handleImagesLoad(files)
       /\ UNCHANGED <<trip, asyncVars>>
    \/ /\ \E category \in DOMAIN state.materialCategories : handleCategoryChange(category)
       /\ UNCHANGED <<trip, asyncVars>>
    \/ /\ \E id \in ScriptInputIds : \E value \in ScriptInputValues(id) :
              inputChange(id, value)
       /\ UNCHANGED <<trip, asyncVars>>
    \/ /\ applyAndNext_script
       /\ UNCHANGED <<trip, asyncVars>>
    \/ /\ \E delta \in {-1, 1} : navigateImage(delta)
       /\ UNCHANGED <<trip, asyncVars>>

ScriptSpec == ScriptInit /\ [][ScriptNext]_vars

\* either page
PagesInit == page \in {"app.js", "script.js"} /\ PageLoaded

PagesNext ==
    \/ page = "app.js" /\ Next
    \/ page = "script.js" /\ ScriptNext

PagesSpec == PagesInit /\ [][PagesNext]_vars



(***************************************************************************)
(* A specification for the numbering rule alone: the session is ready, the *)
(* form is valid with an empty number input, and the ledger holds, for the *)
(* first m images, names generated with any of the typed numbers below.    *)
(* The handlers that call getNextNumber run from there.                    *)
(***************************************************************************)
\* numbers typed by the user: plain, with a leading zero, and two texts with
\* no number followed by the separator at their start
TypedNumbers == {"1", "2", "02", "1x", "x"}

ValidInputs(number) ==
    [numberInput |-> number, implementerSelect |-> "Alice", partNameInput |-> " a",
     weightInput |-> "5", unitSelect |-> "kg", materialCategorySelect |-> "Metal",
     materialSelect |-> "Aluminum", processingSelect |-> "Anodize",
     photoTypeSelect |-> "P", notesSelect |-> "0"]

NumberInit ==
    /\ materials = [x \in {"Aluminum"} |-> "M01"]
    /\ materialNameToId = materials
    /\ materialCategories = [x \in {"Metal"} |-> <<"Aluminum">>]
    /\ processingMethods = [x \in {"Anodize"} |-> "P02"]
    /\ implementers = [x \in {"Alice"} |-> "I03"]
    /\ imageFiles = SortFiles([i \in 1..MaxImages |-> ImageName(i)])
    /\ isReady = TRUE
    /\ inputs = ValidInputs("")
    /\ materialOptions = {"Aluminum"}
    /\ \E m \in 0..MaxImages :
           /\ processedFiles \in
                  [{imageFiles[i] : i \in 1..m} ->
                      {[newName |-> generateFilename(ValidInputs(t), EmptyMap,
                                        implementers, materialNameToId,
                                        processingMethods),
                        extension |-> "jpg", blob |-> f]
                       : t \in TypedNumbers, f \in Range(imageFiles)}]
           /\ \A f \in DOMAIN processedFiles : processedFiles[f].blob = f
           /\ currentIndex \in {c \in 0..(MaxImages - 1) : c <= m}
           /\ disabled = [inputs |-> FALSE, materialSelect |-> FALSE,
                          prevButton |-> (currentIndex = 0), applyButton |-> FALSE,
                          downloadButton |-> (m = 0)]
    /\ imagePreview = CurrentFile
    /\ history = [wentBack |-> FALSE, numberFresh |-> FALSE]
    /\ page = "app.js"
    /\ state = InitialState
    /\ dom = InitialDom
    /\ trip = NoTrip
    /\ download = NoDownload
    /\ preview = NoPreview
    /\ twin = NoAction

NumberNext == (navigatePrevious \/ applyAndNext) /\ UNCHANGED <<trip, asyncVars>>

NumberSpec == NumberInit /\ [][NumberNext]_vars

\* the cursor, the ledger, the form state and the image under the cursor of
\* the page that runs
Cursor == IF page = "app.js" THEN currentIndex ELSE state.currentIndex

LedgerOf == IF page = "app.js" THEN processedFiles ELSE state.renamedFiles

Form == IF page = "app.js" THEN inputs ELSE getInputValues(dom)

ImageAtCursor ==
    IF page = "app.js" THEN imageFiles[currentIndex + 1]
    ELSE state.images[state.currentIndex + 1]

\* trip after a step: a confirmation, unless the cursor is away from the
\* image followed, is followed from then on with the form state it was made
\* with, the entry it wrote and the ledger it left; the cursor reaching the
\* index before that image, and then that image again, is noted; closed
\* tells that the confirmation followed was itself made on such a return,
\* with the form state and the ledger of the one before; an image import
\* ends it
Track(confirmed, imported) ==
    IF imported THEN NoTrip
    ELSE IF /\ confirmed
            /\ \/ trip.stage \in {"idle", "confirmed"}
               \/ trip.stage = "returned" /\ trip.index = Cursor
    THEN [stage |-> "confirmed", index |-> Cursor, form |-> Form,
          entry |-> LedgerOf'[ImageAtCursor], ledger |-> LedgerOf',
          closed |-> /\ trip.stage = "returned"
                     /\ Form = trip.form
                     /\ LedgerOf = trip.ledger]
    ELSE IF trip.stage = "confirmed" /\ Cursor' = trip.index - 1
    THEN [trip EXCEPT !.stage = "back"]
    ELSE IF trip.stage = "back" /\ Cursor' = trip.index
    THEN [trip EXCEPT !.stage = "returned"]
    ELSE trip

\* the imports of a review session: the complete workbook or masters, and
\* all the images at once
CompleteWorkbook ==
    [material |-> Sheet(GoodMaterialRows), processing |-> Sheet(GoodProcessingRows),
     implementer |-> Sheet(GoodImplementerRows)]

CompleteMaterialMaster ==
    << <<ColMaterialName, ColMaterialID, ColMaterialCategory>>,
       <<"Aluminum", "M01", "Metal">>, <<"Steel", "", "Metal">> >>

CompleteProcessingMaster == << <<ColProcessingName, ColProcessingID>>, <<"Anodize", "P02">> >>

AllImages == [i \in 1..MaxImages |-> ImageName(i)]

\* a review session of either page, every confirmation followed
TripInit == PagesInit

TripNext ==
    \/ /\ page = "app.js"
       /\ handleExcelUpload(CompleteWorkbook)
       /\ trip' = Track(FALSE, FALSE)
       /\ UNCHANGED asyncVars
    \/ /\ page = "app.js"
       /\ handleImageUpload(AllImages)
       /\ trip' = Track(FALSE, TRUE)
       /\ UNCHANGED asyncVars
    \/ /\ page = "app.js"
       /\ \E category \in DOMAIN materialCategories : handleMaterialCategoryChange(category)
       /\ trip' = Track(FALSE, FALSE)
       /\ UNCHANGED asyncVars
    \/ /\ page = "app.js"
       /\ \E id \in InputIds : \E value \in InputValues(id) : inputEvent(id, value)
       /\ trip' = Track(FALSE, FALSE)
       /\ UNCHANGED asyncVars
    \/ /\ page = "app.js"
       /\ navigatePrevious
       /\ trip' = Track(FALSE, FALSE)
       /\ UNCHANGED asyncVars
    \/ /\ page = "app.js"
       /\ applyAndNext
       /\ trip' = Track(validateForm(inputs) /\ Len(imageFiles) > 0, FALSE)
       /\ UNCHANGED asyncVars
    \/ /\ page = "script.js"
       /\ handleMaterialLoad(CompleteMaterialMaster)
       /\ trip' = Track(FALSE, FALSE)
       /\ UNCHANGED asyncVars
    \/ /\ page = "script.js"
       /\ handleProcessingLoad(CompleteProcessingMaster)
       /\ trip' = Track(FALSE, FALSE)
       /\ UNCHANGED asyncVars
    \/ /\ page = "script.js"
       /\ handleImagesLoad(AllImages)
       /\ trip' = Track(FALSE, TRUE)
       /\ UNCHANGED asyncVars
    \/ /\ page = "script.js"
       /\ \E category \in DOMAIN state.materialCategories : handleCategoryChange(category)
       /\ trip' = Track(FALSE, FALSE)
       /\ UNCHANGED asyncVars
    \/ /\ page = "script.js"
       /\ \E id \in ScriptInputIds : \E value \in ScriptInputValues(id) :
              inputChange(id, value)
       /\ trip' = Track(FALSE, FALSE)
       /\ UNCHANGED asyncVars
    \/ /\ page = "script.js"
       /\ applyAndNext_script
       /\ trip' = Track(validateInputs(dom) /\ Len(state.images) > 0, FALSE)
       /\ UNCHANGED asyncVars
    \/ /\ page = "script.js"
       /\ \E delta \in {-1, 1} : navigateImage(delta)
       /\ trip' = Track(FALSE, FALSE)
       /\ UNCHANGED asyncVars

TripSpec == TripInit /\ [][TripNext]_vars

\* a session that tries the fields, the tables complete and the number left
\* to the page: a part name and a weight as they should be, and ones with
\* characters a file name or a weight must not have; one image, or two of
\* which one has no extension
FieldPartNames == {"Bracket", "a:  b"}
FieldWeights == {"12.5", "1/2"}
FieldFileLists == {<<"IMG_001.jpg">>, <<"IMG_002", "IMG_001.jpg">>}

FieldValues(id) ==
    CASE id = "partNameInput" -> FieldPartNames
      [] id = "weightInput" -> FieldWeights
      [] OTHER -> InputValues(id)

ScriptFieldValues(id) ==
    CASE id = "inputPartName" -> FieldPartNames
      [] id = "inputWeight" -> FieldWeights
      [] OTHER -> ScriptInputValues(id)

FieldsInit == PagesInit

FieldsNext ==
    \/ /\ page = "app.js"
       /\ handleExcelUpload(CompleteWorkbook)
       /\ UNCHANGED <<trip, asyncVars>>
    \/ /\ page = "app.js"
       /\ \E files \in FieldFileLists : handleImageUpload(files)
       /\ UNCHANGED <<trip, asyncVars>>
    \/ /\ page = "app.js"
       /\ \E category \in DOMAIN materialCategories : handleMaterialCategoryChange(category)
       /\ UNCHANGED <<trip, asyncVars>>
    \/ /\ page = "app.js"
       /\ \E id \in InputIds \ {"numberInput"} :
              \E value \in FieldValues(id) : inputEvent(id, value)
       /\ UNCHANGED <<trip, asyncVars>>
    \/ /\ page = "app.js"
       /\ navigatePrevious
       /\ UNCHANGED <<trip, asyncVars>>
    \/ /\ page = "app.js"
       /\ applyAndNext
       /\ UNCHANGED <<trip, asyncVars>>
    \/ /\ page = "script.js"
       /\ handleMaterialLoad(CompleteMaterialMaster)
       /\ UNCHANGED <<trip, asyncVars>>
    \/ /\ page = "script.js"
       /\ handleProcessingLoad(CompleteProcessingMaster)
       /\ UNCHANGED <<trip, asyncVars>>
    \/ /\ page = "script.js"
       /\ \E files \in FieldFileLists : handleImagesLoad(files)
       /\ UNCHANGED <<trip, asyncVars>>
    \/ /\ page = "script.js"
       /\ \E category \in DOMAIN state.materialCategories : handleCategoryChange(category)
       /\ UNCHANGED <<trip, asyncVars>>
    \/ /\ page = "script.js"
       /\ \E id \in ScriptInputIds : \E value \in ScriptFieldValues(id) :
              inputChange(id, value)
       /\ UNCHANGED <<trip, asyncVars>>
    \/ /\ page = "script.js"
       /\ applyAndNext_script
       /\ UNCHANGED <<trip, asyncVars>>
    \/ /\ page = "script.js"
       /\ \E delta \in {-1, 1} : navigateImage(delta)
       /\ UNCHANGED <<trip, asyncVars>>

FieldsSpec == FieldsInit /\ [][FieldsNext]_vars

\* every text of up to MaxText characters over a letter, the space, a
\* forbidden character and a control character
MaxText == 4

TextChars == {"a", " ", ":", "\t"}

RECURSIVE TextsOfLength(_)
TextsOfLength(n) ==
    IF n = 0 THEN {""}
    ELSE {t \o c : t \in TextsOfLength(n - 1), c \in TextChars}

Texts == UNION {TextsOfLength(n) : n \in 0..MaxText}

\* src/script.js with the user typing any text as the part name: every
\* input event runs updateRenamePreview, which sanitizes the text
TextInit == ScriptInit

TextNext ==
    \/ /\ handleMaterialLoad(CompleteMaterialMaster)
       /\ UNCHANGED <<trip, asyncVars>>
    \/ /\ handleProcessingLoad(CompleteProcessingMaster)
       /\ UNCHANGED <<trip, asyncVars>>
    \/ /\ handleImagesLoad(<<"IMG_001.jpg">>)
       /\ UNCHANGED <<trip, asyncVars>>
    \/ /\ \E category \in DOMAIN state.materialCategories : handleCategoryChange(category)
       /\ UNCHANGED <<trip, asyncVars>>
    \/ /\ \E text \in Texts : inputChange("inputPartName", text)
       /\ UNCHANGED <<trip, asyncVars>>

TextSpec == TextInit /\ [][TextNext]_vars

(***************************************************************************)
(* Vocabulary of the claims, spelled out independently of the handlers.    *)
(***************************************************************************)
\* the assigned name begins with n digits followed by the separator
DigitsThenSeparator(name, n) ==
    /\ n >= 1
    /\ n < Len(name)
    /\ \A j \in 1..n : IsDigit(CharAt(name, j))
    /\ CharAt(name, n + 1) = "_"

HasNumber(name) == \E n \in 1..Len(name) : DigitsThenSeparator(name, n)

\* the text of that run of digits
NumberText(name) ==
    SubSeq(name, 1, CHOOSE n \in 1..Len(name) : DigitsThenSeparator(name, n))

\* its value, digit by digit from the left
RECURSIVE Decimal(_, _, _)
Decimal(text, i, acc) ==
    IF i > Len(text) THEN acc
    ELSE Decimal(text, i + 1, 10 * acc + DigitValue(CharAt(text, i)))

NumberOf(name) == Decimal(NumberText(name), 1, 0)

\* the ledger keys whose assigned name carries a number, and those numbers
Counted(files) == {k \in DOMAIN files : HasNumber(files[k].newName)}

Numbers(files) == {NumberOf(files[k].newName) : k \in Counted(files)}

Occurrences(files, n) ==
    Cardinality({k \in Counted(files) : NumberOf(files[k].newName) = n})

Largest(S) == CHOOSE n \in S : \A m \in S : m <= n

Smallest(S) == CHOOSE n \in S : \A m \in S : n <= m

\* position (1-based) of a file in the image sequence
Position(f) == CHOOSE i \in 1..Len(imageFiles) : imageFiles[i] = f

\* a step of applyAndNext that writes the ledger
Confirm == applyAndNext /\ validateForm(inputs) /\ Len(imageFiles) > 0

(***************************************************************************)
(* C1: computeNextNumber (getNextNumber), for every ledger, counts only    *)
(* the entries whose name begins with digits followed by the separator;    *)
(* it is 1 when nothing is counted, else the largest counted number M      *)
(* when M occurs fewer than 2 times and M + 1 when M occurs 2 or more      *)
(* times.                                                                  *)
(***************************************************************************)
C1_PairRule ==
    getNextNumber(processedFiles) =
        IF Counted(processedFiles) = {} THEN 1
        ELSE LET M == Largest(Numbers(processedFiles))
             IN  IF Occurrences(processedFiles, M) < 2 THEN M ELSE M + 1

\* autoSetNumber has written M + 1 for a ledger in which M occurs twice next
\* to an entry with no number
C1_Witness ==
    /\ \E k \in DOMAIN processedFiles : ~HasNumber(processedFiles[k].newName)
    /\ Counted(processedFiles) # {}
    /\ Occurrences(processedFiles, Largest(Numbers(processedFiles))) >= 2
    /\ history.numberFresh
    /\ inputs.numberInput = NumToStr(Largest(Numbers(processedFiles)) + 1)

(***************************************************************************)
(* C2: with automatically derived numbers, while the cursor only moves     *)
(* forward through freshly imported images, the k-th confirmed image       *)
(* carries the number ceil(k / 2): 1, 1, 2, 2, 3, 3, ...                   *)
(***************************************************************************)
C2_ForwardPairs ==
    ~history.wentBack =>
        \A k \in 1..Len(imageFiles) :
            imageFiles[k] \in DOMAIN processedFiles =>
                /\ HasNumber(processedFiles[imageFiles[k]].newName)
                /\ NumberOf(processedFiles[imageFiles[k]].newName) = (k + 1) \div 2

(***************************************************************************)
(* C3: with automatically derived numbers, no number is the prefix of more *)
(* than two ledger entries.                                                *)
(***************************************************************************)
C3_AtMostTwo ==
    \A n \in Numbers(processedFiles) : Occurrences(processedFiles, n) <= 2

\* after navigating back and confirming again, a number sits on two of three
\* entries
C3_Witness ==
    /\ history.wentBack
    /\ Cardinality(DOMAIN processedFiles) = 3
    /\ \E n \in Numbers(processedFiles) : Occurrences(processedFiles, n) = 2
    /\ imagePreview = "completion"

(***************************************************************************)
(* C4: between image imports, with automatically derived numbers, the next *)
(* number never decreases from one ledger state to the next and is never   *)
(* smaller than a number already assigned: a confirmation leaves it at     *)
(* least as large as it was and as every number in the ledger before and   *)
(* after, and any other step leaves the ledger alone or, as an import,     *)
(* empties it.                                                             *)
(***************************************************************************)
C4_Monotonic ==
    [][IF Confirm
       THEN /\ getNextNumber(processedFiles') >= getNextNumber(processedFiles)
            /\ \A n \in Numbers(processedFiles) : n <= getNextNumber(processedFiles')
            /\ \A n \in Numbers(processedFiles') : n <= getNextNumber(processedFiles')
       ELSE processedFiles' = processedFiles \/ processedFiles' = EmptyMap]_vars

\* an earlier image was confirmed again and the next number stands above 1
C4_Witness ==
    /\ history.wentBack
    /\ currentIndex >= 1
    /\ Cardinality(DOMAIN processedFiles) >= 2
    /\ getNextNumber(processedFiles) >= 2
    /\ \E k \in DOMAIN processedFiles :
           NumberOf(processedFiles[k].newName) = getNextNumber(processedFiles)

(***************************************************************************)
(* C5 as stated: with automatically derived numbers, in every reachable    *)
(* state (after backward navigation and re-confirmation too) the numbers   *)
(* present in the ledger are exactly 1..M, M the largest of them.          *)
(***************************************************************************)
C5_NoGaps ==
    Numbers(processedFiles) # {} =>
        Numbers(processedFiles) = 1..Largest(Numbers(processedFiles))

(***************************************************************************)
(* C5 amended: with automatically derived numbers, as long as the cursor   *)
(* has not moved backward since the import, the numbers present in the     *)
(* ledger are consecutive: no value between the smallest of them and the   *)
(* largest M is missing.                                                   *)
(***************************************************************************)
C5_NoGapsForward ==
    (~history.wentBack /\ Numbers(processedFiles) # {}) =>
        Numbers(processedFiles) =
            Smallest(Numbers(processedFiles))..Largest(Numbers(processedFiles))

\* three images confirmed in order carry the numbers 1 and 2
C5_Witness ==
    /\ ~history.wentBack
    /\ Cardinality(DOMAIN processedFiles) = 3
    /\ Numbers(processedFiles) = {1, 2}

(***************************************************************************)
(* C6 as stated: with automatically derived numbers, two images holding    *)
(* the same number are adjacent in the image sequence.                     *)
(***************************************************************************)
C6_PairsAdjacent ==
    \A f, g \in Counted(processedFiles) :
        (/\ Position(f) < Position(g)
         /\ NumberOf(processedFiles[f].newName) = NumberOf(processedFiles[g].newName))
            => Position(g) = Position(f) + 1

(***************************************************************************)
(* C6 amended: with automatically derived numbers, as long as the cursor   *)
(* has not moved backward since the import, two images holding the same    *)
(* number are adjacent in the image sequence.                              *)
(***************************************************************************)
C6_PairsAdjacentForward == ~history.wentBack => C6_PairsAdjacent

\* the first two of three images confirmed in order share a number
C6_Witness ==
    /\ ~history.wentBack
    /\ Len(imageFiles) = 3
    /\ Cardinality(DOMAIN processedFiles) = 3
    /\ NumberOf(processedFiles[imageFiles[1]].newName) =
           NumberOf(processedFiles[imageFiles[2]].newName)

(***************************************************************************)
(* C7 as stated: with automatically derived numbers, the number written by *)
(* a confirmation equals getNextNumber of the ledger as it was just before *)
(* that confirmation, a repeated confirmation at the last index included.  *)
(***************************************************************************)
C7_NumberFromLedgerBefore ==
    [][Confirm =>
          /\ HasNumber(processedFiles'[CurrentFile].newName)
          /\ NumberText(processedFiles'[CurrentFile].newName) =
                 NumToStr(getNextNumber(processedFiles))]_vars

(***************************************************************************)
(* C7 amended: with automatically derived numbers, a confirmation made     *)
(* while the number input holds what autoSetNumber wrote after the last    *)
(* change of the ledger (or is empty) writes getNextNumber of the ledger   *)
(* as it was just before; any other confirmation, such as a repeated one   *)
(* at the last index, writes the number the input still holds.             *)
(***************************************************************************)
C7_NumberFromFreshInput ==
    [][Confirm =>
          /\ HasNumber(processedFiles'[CurrentFile].newName)
          /\ NumberText(processedFiles'[CurrentFile].newName) =
                 IF history.numberFresh \/ inputs.numberInput = ""
                 THEN NumToStr(getNextNumber(processedFiles))
                 ELSE inputs.numberInput]_vars

\* a confirmation has advanced the cursor past an entry numbered from the
\* ledger and refreshed the number input
C7_Witness ==
    /\ currentIndex = 2
    /\ history.numberFresh
    /\ ~history.wentBack
    /\ NumberOf(processedFiles[imageFiles[2]].newName) = 1
    /\ inputs.numberInput = "2"

\* a step of applyAndNext of script.js that writes the ledger
ScriptConfirm ==
    applyAndNext_script /\ validateInputs(dom) /\ Len(state.images) > 0

(***************************************************************************)
(* C8: a successful confirmation at cursor c writes the ledger entry keyed *)
(* by the original name of the image at c; it then moves the cursor to     *)
(* c + 1 when c is not the last index, and when c is the last index the    *)
(* cursor stays and completion is signalled.  No other ledger key is       *)
(* created, changed or removed.  (Both variants.)                          *)
(***************************************************************************)
C8_ConfirmWritesCurrentKey ==
    [][/\ Confirm =>
            LET key == imageFiles[currentIndex + 1]
            IN  /\ DOMAIN processedFiles' = DOMAIN processedFiles \cup {key}
                /\ processedFiles'[key].blob = key
                /\ \A k \in DOMAIN processedFiles \ {key} :
                       processedFiles'[k] = processedFiles[k]
                /\ imageFiles' = imageFiles
                /\ IF currentIndex < Len(imageFiles) - 1
                   THEN currentIndex' = currentIndex + 1
                        /\ imagePreview' = imageFiles[currentIndex + 2]
                   ELSE currentIndex' = currentIndex
                        /\ imagePreview' = "completion"
       /\ ScriptConfirm =>
            LET key == state.images[state.currentIndex + 1]
            IN  /\ DOMAIN state'.renamedFiles = DOMAIN state.renamedFiles \cup {key}
                /\ \A k \in DOMAIN state.renamedFiles \ {key} :
                       state'.renamedFiles[k] = state.renamedFiles[k]
                /\ state'.images = state.images
                /\ IF state.currentIndex < Len(state.images) - 1
                   THEN state'.currentIndex = state.currentIndex + 1
                        /\ dom'.alert = ""
                   ELSE state'.currentIndex = state.currentIndex
                        /\ dom'.alert = "complete"]_vars

\* script.js has confirmed the last of three images: every image has its
\* entry, the cursor rests on the last index and completion is signalled
C8_Witness ==
    /\ page = "script.js"
    /\ Len(state.images) = 3
    /\ state.currentIndex = 2
    /\ DOMAIN state.renamedFiles = Range(state.images)
    /\ dom.alert = "complete"

(***************************************************************************)
(* C9: the ledger holds one entry per original name at most, and a         *)
(* confirmation for a name that already has an entry replaces that entry   *)
(* and leaves the number of ledger entries unchanged.  (Both variants.)    *)
(***************************************************************************)
C9_ReconfirmReplaces ==
    [][/\ (Confirm /\ imageFiles[currentIndex + 1] \in DOMAIN processedFiles) =>
            /\ Cardinality(DOMAIN processedFiles') = Cardinality(DOMAIN processedFiles)
            /\ processedFiles'[imageFiles[currentIndex + 1]] =
                   [newName |-> generateFilename(inputs, processedFiles, implementers,
                                    materialNameToId, processingMethods),
                    extension |-> LastSegment(imageFiles[currentIndex + 1]),
                    blob |-> imageFiles[currentIndex + 1]]
       /\ (ScriptConfirm
             /\ state.images[state.currentIndex + 1] \in DOMAIN state.renamedFiles) =>
            /\ Cardinality(DOMAIN state'.renamedFiles) =
                   Cardinality(DOMAIN state.renamedFiles)
            /\ state'.renamedFiles[state.images[state.currentIndex + 1]] =
                   generateNewFilename(state, dom) \o "."
                       \o LastSegment(state.images[state.currentIndex + 1])]_vars

\* app.js has gone back to the first of three confirmed images and confirmed
\* it again: its entry now carries a larger number than the second image's
C9_Witness ==
    /\ page = "app.js"
    /\ history.wentBack
    /\ currentIndex = 1
    /\ Cardinality(DOMAIN processedFiles) = 3
    /\ HasNumber(processedFiles[imageFiles[1]].newName)
    /\ HasNumber(processedFiles[imageFiles[2]].newName)
    /\ NumberOf(processedFiles[imageFiles[1]].newName) >
           NumberOf(processedFiles[imageFiles[2]].newName)

(***************************************************************************)
(* C10 as stated: a confirmation is idempotent: confirming again with the  *)
(* form and the ledger as the first confirmation left them writes the same *)
(* name for the same key.                                                  *)
(***************************************************************************)
C10_Idempotent ==
    [][(Confirm /\ currentIndex' = currentIndex /\ inputs' = inputs) =>
          generateFilename(inputs', processedFiles', implementers',
                           materialNameToId', processingMethods')
              = processedFiles'[CurrentFile].newName]_vars

(***************************************************************************)
(* C10 amended: a confirmation made with a non-empty number input is       *)
(* idempotent: confirming again with the form and the ledger as the first  *)
(* confirmation left them writes the same name for the same key.           *)
(***************************************************************************)
C10_IdempotentWithNumber ==
    [][(Confirm /\ currentIndex' = currentIndex /\ inputs' = inputs
          /\ inputs.numberInput # "") =>
          generateFilename(inputs', processedFiles', implementers',
                           materialNameToId', processingMethods')
              = processedFiles'[CurrentFile].newName]_vars

\* the last image has been confirmed with a typed number and the form is
\* still valid for a second confirmation
C10_Witness ==
    /\ imagePreview = "completion"
    /\ inputs.numberInput = "3"
    /\ validateForm(inputs)
    /\ Len(imageFiles) >= 2
    /\ processedFiles[CurrentFile].newName =
           generateFilename(inputs, processedFiles, implementers,
                            materialNameToId, processingMethods)

\* a confirmation of the image followed, made after the cursor has been on
\* the index before it and has returned, the rest of the ledger being what
\* the confirmation followed left
ReConfirm ==
    /\ trip.stage = "returned"
    /\ Cursor = trip.index
    /\ IF page = "app.js" THEN Confirm ELSE ScriptConfirm
    /\ DOMAIN LedgerOf = DOMAIN trip.ledger
    /\ \A f \in DOMAIN LedgerOf : LedgerOf[f] = trip.ledger[f]

(***************************************************************************)
(* C11 as stated: after image i is confirmed, the cursor taken to i - 1    *)
(* and brought back to i, confirming i again with the form state of the    *)
(* first confirmation (the number field included), the ledger being        *)
(* otherwise unchanged, writes the same ledger entry for i.                *)
(***************************************************************************)
C11_RoundTrip ==
    [][(ReConfirm /\ Form = trip.form) => LedgerOf'[ImageAtCursor] = trip.entry]_vars

(***************************************************************************)
(* C11 amended: the same round trip writes the same ledger entry for i     *)
(* when the number is not left to the ledger: in src/script.js, where the  *)
(* number is the position of the image, and in src/app.js when the number  *)
(* field of that form state is not empty.                                  *)
(***************************************************************************)
C11_RoundTripWithNumber ==
    [][(/\ ReConfirm
        /\ Form = trip.form
        /\ page = "app.js" => inputs.numberInput # "")
          => LedgerOf'[ImageAtCursor] = trip.entry]_vars

\* src/app.js: an image confirmed with a typed number has been confirmed
\* again, after the cursor went to the image before it and returned, with
\* the form state of the first confirmation and the rest of the ledger as
\* that confirmation left it
C11_Witness ==
    /\ page = "app.js"
    /\ history.wentBack
    /\ trip.stage = "confirmed"
    /\ trip.closed
    /\ trip.index >= 1
    /\ trip.form.numberInput # ""
    /\ processedFiles[imageFiles[trip.index + 1]] = trip.entry

\* the result that tells "not ready": '' in both variants, and '...' in
\* src/script.js
NotReady(name) == name = "" \/ (page = "script.js" /\ name = "...")

\* the name the page would generate from its form state now
GeneratedName ==
    IF page = "app.js"
    THEN generateFilename(inputs, processedFiles, implementers, materialNameToId,
                          processingMethods)
    ELSE generateNewFilename(state, dom)

\* the constraints on the required fields of the form state of the page
PartNameOk(partName) == Trim(partName) # ""

WeightOk(weight) ==
    /\ Trim(weight) # ""
    /\ \A i \in 1..Len(Trim(weight)) : IsWeightChar(CharAt(Trim(weight), i))

RequiredFieldsOk ==
    IF page = "app.js"
    THEN /\ PartNameOk(inputs.partNameInput)
         /\ WeightOk(inputs.weightInput)
         /\ inputs.materialCategorySelect \in DOMAIN materialCategories
         /\ inputs.materialSelect
                \in Range(materialCategories[inputs.materialCategorySelect])
         /\ inputs.processingSelect \in DOMAIN processingMethods
         /\ inputs.implementerSelect # ""
    ELSE /\ PartNameOk(dom.inputPartName)
         /\ WeightOk(dom.inputWeight)
         /\ dom.inputCategory \in DOMAIN state.materialCategories
         /\ dom.inputMaterial \in Range(state.materialCategories[dom.inputCategory])
         /\ dom.inputProcessing \in DOMAIN state.processing

(***************************************************************************)
(* C12: whenever the filename generator returns a name (not the empty      *)
(* "not ready" result) for the form state, every required field is valid:  *)
(* the trimmed part name is not empty, the trimmed weight is not empty and *)
(* made only of digits, ASCII letters, '.' and '-', the category is a key  *)
(* of the category index, the material belongs to that category, the       *)
(* processing method is a key of the processing table and (src/app.js)     *)
(* the implementer is not empty.                                           *)
(***************************************************************************)
C12_NameImpliesValidFields == ~NotReady(GeneratedName) => RequiredFieldsOk

\* a click on the confirm button of the page: applyAndNext, whether or not
\* it writes
ConfirmAttempt ==
    IF page = "app.js" THEN applyAndNext ELSE applyAndNext_script

(***************************************************************************)
(* C13: the confirm action is gated by validity: a confirm attempted while *)
(* a required-field constraint fails for the form state (the weight's      *)
(* character allow-list included) leaves the ledger and the cursor         *)
(* unchanged, so that an entry is written only when every constraint       *)
(* holds.                                                                  *)
(***************************************************************************)
C13_ConfirmGated ==
    [][(ConfirmAttempt /\ ~RequiredFieldsOk)
          => (LedgerOf' = LedgerOf /\ Cursor' = Cursor)]_vars

\* the fields of a generated name: its pieces between the separators
RECURSIVE SplitName(_, _)
SplitName(name, piece) ==
    IF name = "" THEN <<piece>>
    ELSE IF Head(name) = "_" THEN <<piece>> \o SplitName(Tail(name), "")
    ELSE SplitName(Tail(name), piece \o SubSeq(name, 1, 1))

NameFields(name) == SplitName(name, "")

(***************************************************************************)
(* C14: a lookup miss degrades to a placeholder: when the page generates a *)
(* name while the selected material, processing method or implementer is   *)
(* not a key of its lookup table, the name carries the literal ??? in the  *)
(* position of that identifier (5th field material, 6th processing, 7th    *)
(* implementer in src/app.js).                                             *)
(***************************************************************************)
C14_MissGivesPlaceholder ==
    ~NotReady(GeneratedName) =>
        LET f == NameFields(GeneratedName)
        IN  IF page = "app.js"
            THEN /\ inputs.materialSelect \notin DOMAIN materialNameToId => f[5] = "???"
                 /\ inputs.processingSelect \notin DOMAIN processingMethods
                        => f[6] = "???"
                 /\ inputs.implementerSelect \notin DOMAIN implementers => f[7] = "???"
            ELSE /\ dom.inputMaterial \notin DOMAIN state.materialNameToId
                        => f[5] = "???"
                 /\ dom.inputProcessing \notin DOMAIN state.processing => f[6] = "???"

\* the name a ledger entry assigns (src/script.js stores it with the extension)
AssignedName(entry) == IF page = "app.js" THEN entry.newName ELSE entry

\* a field with none of the characters forbidden in file names, no run of
\* whitespace and no whitespace at either end
Sanitized(field) ==
    /\ \A i \in 1..Len(field) : ~IsForbidden(CharAt(field, i))
    /\ \A i \in 1..(Len(field) - 1) :
           ~(IsSpace(CharAt(field, i)) /\ IsSpace(CharAt(field, i + 1)))
    /\ field # "" => ~IsSpace(CharAt(field, 1)) /\ ~IsSpace(CharAt(field, Len(field)))

(***************************************************************************)
(* C15: in every name written to the ledger, the part-name field and the   *)
(* weight field (2nd and 3rd field) contain none of < > : " / \ | ? * and  *)
(* no control character, no run of two or more whitespace characters, and  *)
(* no leading or trailing whitespace.                                      *)
(***************************************************************************)
C15_LedgerNamesSanitized ==
    \A f \in DOMAIN LedgerOf :
        LET fields == NameFields(AssignedName(LedgerOf[f]))
        IN  Sanitized(fields[2]) /\ Sanitized(fields[3])

(***************************************************************************)
(* C16: sanitization is idempotent: for every text s the user can type,    *)
(* the empty text and texts made only of forbidden characters or           *)
(* whitespace included, sanitizeFilename(sanitizeFilename(s)) =            *)
(* sanitizeFilename(s).                                                    *)
(***************************************************************************)
C16_SanitizeIdempotent ==
    sanitizeFilename(sanitizeFilename(dom.inputPartName))
        = sanitizeFilename(dom.inputPartName)

\* the fields joined by the separator
RECURSIVE JoinFields(_)
JoinFields(fields) ==
    IF Len(fields) = 1 THEN fields[1]
    ELSE fields[1] \o "_" \o JoinFields(Tail(fields))

\* the fields of the form state in the order of the name, the ids taken
\* from the lookup tables; the free-text fields as the page carries them
\* into the name (src/app.js trims them, src/script.js also sanitizes them)
FieldsInOrder ==
    IF page = "app.js"
    THEN << IF inputs.numberInput # "" THEN inputs.numberInput
            ELSE NumToStr(getNextNumber(processedFiles)),
            Trim(inputs.partNameInput), Trim(inputs.weightInput), inputs.unitSelect,
            materialNameToId[inputs.materialSelect],
            processingMethods[inputs.processingSelect],
            implementers[inputs.implementerSelect],
            inputs.photoTypeSelect, inputs.notesSelect >>
    ELSE << NumToStr(state.currentIndex + 1),
            sanitizeFilename(Trim(dom.inputPartName)),
            sanitizeFilename(Trim(dom.inputWeight)), dom.inputUnit,
            state.materialNameToId[dom.inputMaterial],
            state.processing[dom.inputProcessing],
            dom.inputPhotoType, dom.inputNotes >>

\* the full name of a ledger entry: the assigned name with its extension
FullName(entry) ==
    IF page = "app.js" THEN entry.newName \o "." \o entry.extension ELSE entry

HasDot(name) == \E i \in 1..Len(name) : CharAt(name, i) = "."

ExtensionOf(name) ==
    IF ~HasDot(name) THEN ""
    ELSE LET last == CHOOSE i \in 1..Len(name) :
                         /\ CharAt(name, i) = "."
                         /\ \A j \in (i + 1)..Len(name) : CharAt(name, j) # "."
         IN  SubSeq(name, last + 1, Len(name))

(***************************************************************************)
(* C18: the extension a confirmation attaches to the assigned name is the  *)
(* part of the original filename after its last '.', and is empty when     *)
(* the original filename contains no '.'; it is never the whole original   *)
(* filename.                                                               *)
(***************************************************************************)
C18_ExtensionAfterLastDot ==
    [][(IF page = "app.js" THEN Confirm ELSE ScriptConfirm) =>
          LET base == JoinFields(FieldsInOrder)
              written == LedgerOf'[ImageAtCursor]
          IN  IF page = "app.js"
              THEN /\ written.extension = ExtensionOf(ImageAtCursor)
                   /\ written.extension # ImageAtCursor
              ELSE IF HasDot(ImageAtCursor)
              THEN written = base \o "." \o ExtensionOf(ImageAtCursor)
              ELSE written \in {base, base \o "."}]_vars

\* the image sequence of the page that runs
SequenceOf == IF page = "app.js" THEN imageFiles ELSE state.images

\* an import of the images files by the page
ImportOf(files) ==
    IF page = "app.js" THEN handleImageUpload(files) ELSE handleImagesLoad(files)

C20_KeysInSequence == DOMAIN LedgerOf \subseteq Range(SequenceOf)

\* src/script.js: both images of an imported sequence have been confirmed
\* and the cursor has been taken back to the first
C20_Witness ==
    /\ page = "script.js"
    /\ Len(state.images) = 2
    /\ DOMAIN state.renamedFiles = Range(state.images)
    /\ state.currentIndex = 0
    /\ dom.alert = ""

(***************************************************************************)
(* C21: in every reachable state with a non-empty image sequence the       *)
(* cursor is an integer with 0 <= cursor < length of the sequence,         *)
(* whatever imports, confirmations and backward and forward navigation     *)
(* came before.                                                            *)
(***************************************************************************)
C21_CursorInRange ==
    Len(SequenceOf) > 0 => (Cursor \in Int /\ 0 <= Cursor /\ Cursor < Len(SequenceOf))

\* src/script.js: the cursor stands on the last of three images, reached by
\* forward navigation alone
C21_Witness ==
    /\ page = "script.js"
    /\ Len(state.images) = 3
    /\ state.currentIndex = 2
    /\ state.renamedFiles = EmptyMap

(***************************************************************************)
(* C22: the mapping from original filename to full new filename (name plus *)
(* extension) is one-to-one: in every reachable state no two distinct      *)
(* ledger keys are assigned the same full new filename.                    *)
(***************************************************************************)
C22_LedgerOneToOne ==
    \A a, b \in DOMAIN LedgerOf :
        a # b => FullName(LedgerOf[a]) # FullName(LedgerOf[b])

\* the handlers other than the confirmation that move the cursor by delta:
\* src/app.js registers navigatePrevious on prevButton and nothing that goes
\* forward; src/script.js registers navigateImage(-1) and navigateImage(1) on
\* btnPrev, btnNext and the arrow keys
MoveCursor(delta) ==
    \/ /\ page = "app.js"
       /\ delta = -1
       /\ navigatePrevious
    \/ /\ page = "script.js"
       /\ navigateImage(delta)

\* the next number is one the model follows (navigatePrevious is cut off
\* beyond MaxNumber)
NumberInBound == page = "app.js" => getNextNumber(processedFiles) <= MaxNumber

CanMoveBackward == ENABLED (MoveCursor(-1) /\ Cursor' = Cursor - 1)
CanMoveForward == ENABLED (MoveCursor(1) /\ Cursor' = Cursor + 1)

(***************************************************************************)
(* C23: cursor navigation is never gated by validity or confirmation: in   *)
(* every reachable state, whatever the form holds and whether or not the   *)
(* image at the cursor is confirmed, a step other than a confirmation can  *)
(* move the cursor backward when it is above 0 and forward when it is      *)
(* below the last index.                                                   *)
(***************************************************************************)
C23_NavigationNeverGated ==
    (Len(SequenceOf) > 0 /\ NumberInBound) =>
        /\ Cursor > 0 => CanMoveBackward
        /\ Cursor < Len(SequenceOf) - 1 => CanMoveForward

\* a name cut at its first digit run: the text before it, the run, the rest
TextBefore(name) == SubSeq(name, 1, RunLength(name, 1, FALSE))

DigitRun(name) ==
    SubSeq(name, Len(TextBefore(name)) + 1,
           Len(TextBefore(name)) + RunLength(name, Len(TextBefore(name)) + 1, TRUE))

TextAfter(name) ==
    SubSeq(name, Len(TextBefore(name)) + Len(DigitRun(name)) + 1, Len(name))

\* two names that differ only in one digit run
DifferInOneDigitRun(a, b) ==
    /\ TextBefore(a) = TextBefore(b)
    /\ TextAfter(a) = TextAfter(b)
    /\ DigitRun(a) # "" /\ DigitRun(b) # ""
    /\ DigitRun(a) # DigitRun(b)

(***************************************************************************)
(* C24: the image sequence is in natural order: of every two names of the  *)
(* sequence that differ only in one digit run, the one whose run has the   *)
(* smaller numeric value comes first (img1.jpg, img2.jpg, img10.jpg).      *)
(***************************************************************************)
C24_NaturalOrder ==
    \A i, j \in 1..Len(SequenceOf) :
        (i < j /\ DifferInOneDigitRun(SequenceOf[i], SequenceOf[j]))
            => ParseInt(DigitRun(SequenceOf[i])) < ParseInt(DigitRun(SequenceOf[j]))

\* the lookup tables and the category index of the page
Tables ==
    IF page = "app.js"
    THEN <<materials, processingMethods, implementers, materialCategories,
           materialNameToId>>
    ELSE <<state.materials, state.processing, state.materialCategories,
           state.materialNameToId>>

\* a workbook that lacks a required sheet, or whose material sheet lacks the
\* id column (no row has the cell)
LacksSheetOrColumn(workbook) ==
    \/ ~workbook.material.found
    \/ ~workbook.processing.found
    \/ ~workbook.implementer.found
    \/ \A i \in 1..Len(workbook.material.rows) : workbook.material.rows[i].id = ""

\* a master whose header row lacks a required column title
LacksColumn(rows, names, id) ==
    \/ \A i \in 1..Len(rows[1]) : rows[1][i] \notin names
    \/ \A i \in 1..Len(rows[1]) : rows[1][i] # id

\* a spreadsheet import of something that lacks a required sheet or column
FailedImport ==
    \/ /\ page = "app.js"
       /\ \E workbook \in Workbooks :
              LacksSheetOrColumn(workbook) /\ handleExcelUpload(workbook)
    \/ /\ page = "script.js"
       /\ \E rows \in MaterialMasters :
              /\ LacksColumn(rows, {ColMaterialName, ColMaterial}, ColMaterialID)
              /\ handleMaterialLoad(rows)
    \/ /\ page = "script.js"
       /\ \E rows \in ProcessingMasters :
              /\ LacksColumn(rows, {ColProcessingName, ColProcessing}, ColProcessingID)
              /\ handleProcessingLoad(rows)

(***************************************************************************)
(* C25: a spreadsheet import is all-or-nothing: after an import of a       *)
(* spreadsheet that lacks a required sheet or column, every lookup table   *)
(* and the category index are exactly as before the import, whatever was   *)
(* loaded before; no import replaces some tables and keeps others.         *)
(***************************************************************************)
C25_ImportAllOrNothing ==
    [][FailedImport => Tables' = Tables]_vars

(***************************************************************************)
(* downloadZip of both variants.  The function runs up to                  *)
(* await zip.generateAsync in one step; the generation settles in a later  *)
(* step, resolved or rejected, and other handlers can run in between.  One *)
(* generation is followed at a time.                                       *)
(***************************************************************************)
\* src/app.js: the zip.file calls of the for loop over AppState.processedFiles
ZipFiles(ledger) ==
    {<<ledger[f].newName \o "." \o ledger[f].extension, ledger[f].blob>> :
        f \in DOMAIN ledger}

\* src/script.js: the folder.file calls of the for loop over state.images
ZipFiles_script(st) ==
    {<<st.renamedFiles[f], f>> :
        f \in {g \in Range(st.images) :
                  g \in DOMAIN st.renamedFiles /\ st.renamedFiles[g] # ""}}

\* a faulty downloadZip, for comparison: the ledger is emptied once its
\* files are in the archive
downloadZipClearing ==
    /\ ~disabled.downloadButton
    /\ download.stage # "generating"
    /\ download' = [stage |-> "generating", files |-> ZipFiles(processedFiles),
                    saved |-> {}, reported |-> -1]
    /\ processedFiles' = EmptyMap
    /\ UNCHANGED <<tableVars, imageFiles, currentIndex, isReady, pageVars, history,
                   page, scriptVars, trip, preview, twin>>

\* src/app.js downloadZip (click on downloadButton), up to the await
downloadZip ==
    /\ ~disabled.downloadButton
    /\ download.stage # "generating"
    /\ download' = [stage |-> "generating", files |-> ZipFiles(processedFiles),
                    saved |-> {}, reported |-> -1]
    /\ UNCHANGED <<tableVars, imageVars, pageVars, history, page, scriptVars, trip,
                   preview, twin>>

\* src/app.js downloadZip after the await: saveAs, and the status line with
\* AppState.processedFiles.size as it is by then
generateAsyncResolved ==
    /\ download.stage = "generating"
    /\ download' = [download EXCEPT !.stage = "saved", !.saved = download.files,
                                    !.reported = Cardinality(DOMAIN processedFiles)]
    /\ UNCHANGED <<tableVars, imageVars, pageVars, history, page, scriptVars, trip,
                   preview, twin>>

\* src/app.js downloadZip, the catch block
generateAsyncRejected ==
    /\ download.stage = "generating"
    /\ download' = [download EXCEPT !.stage = "failed"]
    /\ UNCHANGED <<tableVars, imageVars, pageVars, history, page, scriptVars, trip,
                   preview, twin>>

\* src/script.js downloadZip (click on btnDownload), up to the await; with
\* nothing renamed it alerts and returns through the finally block
downloadZip_script ==
    /\ ~dom.btnDownload
    /\ download.stage # "generating"
    /\ IF ZipFiles_script(state) = {}
       THEN /\ dom' = [dom EXCEPT !.alert = "nothing renamed", !.btnDownload = FALSE]
            /\ UNCHANGED download
       ELSE /\ dom' = [dom EXCEPT !.alert = "", !.btnDownload = TRUE]
            /\ download' = [stage |-> "generating", files |-> ZipFiles_script(state),
                            saved |-> {}, reported |-> -1]
    /\ UNCHANGED <<tableVars, imageVars, pageVars, history, page, state, trip, preview, twin>>

\* src/script.js downloadZip after the await: saveAs, then the finally block
generateAsyncResolved_script ==
    /\ download.stage = "generating"
    /\ download' = [download EXCEPT !.stage = "saved", !.saved = download.files]
    /\ dom' = [dom EXCEPT !.btnDownload = FALSE]
    /\ UNCHANGED <<tableVars, imageVars, pageVars, history, page, state, trip, preview, twin>>

\* src/script.js downloadZip, the catch block, then the finally block
generateAsyncRejected_script ==
    /\ download.stage = "generating"
    /\ download' = [download EXCEPT !.stage = "failed"]
    /\ dom' = [dom EXCEPT !.alert = "zip failed", !.btnDownload = FALSE]
    /\ UNCHANGED <<tableVars, imageVars, pageVars, history, page, state, trip, preview, twin>>

\* a session with exports: the tables complete, the number left to the
\* page, one image or two
ExportFileLists == {<<"img1.jpg">>, <<"img2.jpg", "img1.jpg">>}

ExportInit == PagesInit

ExportNext ==
    \/ /\ page = "app.js"
       /\ handleExcelUpload(CompleteWorkbook)
       /\ UNCHANGED <<trip, asyncVars>>
    \/ /\ page = "app.js"
       /\ \E files \in ExportFileLists : handleImageUpload(files)
       /\ UNCHANGED <<trip, asyncVars>>
    \/ /\ page = "app.js"
       /\ \E category \in DOMAIN materialCategories : handleMaterialCategoryChange(category)
       /\ UNCHANGED <<trip, asyncVars>>
    \/ /\ page = "app.js"
       /\ \E id \in InputIds \ {"numberInput"} :
              \E value \in InputValues(id) : inputEvent(id, value)
       /\ UNCHANGED <<trip, asyncVars>>
    \/ /\ page = "app.js"
       /\ navigatePrevious
       /\ UNCHANGED <<trip, asyncVars>>
    \/ /\ page = "app.js"
       /\ applyAndNext
       /\ UNCHANGED <<trip, asyncVars>>
    \/ /\ page = "app.js"
       /\ downloadZip
    \/ /\ page = "app.js"
       /\ generateAsyncResolved
    \/ /\ page = "app.js"
       /\ generateAsyncRejected
    \/ /\ page = "script.js"
       /\ handleMaterialLoad(CompleteMaterialMaster)
       /\ UNCHANGED <<trip, asyncVars>>
    \/ /\ page = "script.js"
       /\ handleProcessingLoad(CompleteProcessingMaster)
       /\ UNCHANGED <<trip, asyncVars>>
    \/ /\ page = "script.js"
       /\ \E files \in ExportFileLists : handleImagesLoad(files)
       /\ UNCHANGED <<trip, asyncVars>>
    \/ /\ page = "script.js"
       /\ \E category \in DOMAIN state.materialCategories : handleCategoryChange(category)
       /\ UNCHANGED <<trip, asyncVars>>
    \/ /\ page = "script.js"
       /\ \E id \in ScriptInputIds : \E value \in ScriptInputValues(id) :
              inputChange(id, value)
       /\ UNCHANGED <<trip, asyncVars>>
    \/ /\ page = "script.js"
       /\ applyAndNext_script
       /\ UNCHANGED <<trip, asyncVars>>
    \/ /\ page = "script.js"
       /\ \E delta \in {-1, 1} : navigateImage(delta)
       /\ UNCHANGED <<trip, asyncVars>>
    \/ /\ page = "script.js"
       /\ downloadZip_script
    \/ /\ page = "script.js"
       /\ generateAsyncResolved_script
    \/ /\ page = "script.js"
       /\ generateAsyncRejected_script

ExportSpec == ExportInit /\ [][ExportNext]_vars

\* a step of an export: the click that starts it, or its generation settling
ExportStep ==
    \/ /\ page = "app.js"
       /\ downloadZip \/ generateAsyncResolved \/ generateAsyncRejected
    \/ /\ page = "script.js"
       /\ \/ downloadZip_script
          \/ generateAsyncResolved_script
          \/ generateAsyncRejected_script

\* the files an export started now would put into its archive
WouldArchive ==
    IF page = "app.js" THEN ZipFiles(processedFiles) ELSE ZipFiles_script(state)

(***************************************************************************)
(* C26: an export leaves the session untouched: over every step of an      *)
(* export, the start as well as a generation that succeeds or fails, the   *)
(* ledger, the cursor and the image sequence stay the same, so an export   *)
(* started afterwards would archive the same files.                        *)
(***************************************************************************)
C26_ExportLeavesSession ==
    [][ExportStep => /\ LedgerOf' = LedgerOf
                     /\ Cursor' = Cursor
                     /\ SequenceOf' = SequenceOf
                     /\ WouldArchive' = WouldArchive]_vars

\* an export of a ledger of two entries has failed, the cursor on the
\* second image, and a new export would archive the two files
C26_Witness ==
    /\ download.stage = "failed"
    /\ Cardinality(download.files) = 2
    /\ Cursor = 1
    /\ WouldArchive = download.files

(***************************************************************************)
(* Both variants side by side: the user does on the page of src/script.js  *)
(* what they have just done on the page of src/app.js, with the same       *)
(* files and the same values.  The implementer select exists on the first  *)
(* page only; the workbook of the first page is the two masters of the     *)
(* second.  A control of the second page that is disabled, or that holds   *)
(* the value already, ignores the user.                                    *)
(***************************************************************************)
\* what the user does next on the page of src/script.js
Pending(kind, id, value, files) ==
    [kind |-> kind, id |-> id, value |-> value, files |-> files]

\* the control of src/script.js for a control of src/app.js
ScriptId(id) ==
    CASE id = "partNameInput" -> "inputPartName"
      [] id = "weightInput" -> "inputWeight"
      [] id = "materialSelect" -> "inputMaterial"
      [] id = "processingSelect" -> "inputProcessing"

\* the values the user can give a control on both pages
TwinValues(id) ==
    CASE id = "partNameInput" -> PartNames
      [] id = "weightInput" -> ScriptWeights
      [] OTHER -> InputValues(id)

\* the handler of src/script.js for what is pending
TwinHandler ==
    \/ twin.kind = "materials" /\ handleMaterialLoad(CompleteMaterialMaster)
    \/ twin.kind = "processing" /\ handleProcessingLoad(CompleteProcessingMaster)
    \/ twin.kind = "images" /\ handleImagesLoad(twin.files)
    \/ twin.kind = "category" /\ handleCategoryChange(twin.value)
    \/ twin.kind = "input" /\ inputChange(twin.id, twin.value)
    \/ twin.kind = "confirm" /\ applyAndNext_script
    \/ twin.kind = "back" /\ navigateImage(-1)

TwinInit == Init

TwinNext ==
    \/ /\ twin = NoAction
       /\ handleExcelUpload(CompleteWorkbook)
       /\ twin' = Pending("materials", "", "", <<>>)
       /\ UNCHANGED <<trip, download, preview>>
    \/ /\ twin = NoAction
       /\ \E files \in ExportFileLists :
              /\ handleImageUpload(files)
              /\ twin' = Pending("images", "", "", files)
       /\ UNCHANGED <<trip, download, preview>>
    \/ /\ twin = NoAction
       /\ \E category \in DOMAIN materialCategories :
              /\ handleMaterialCategoryChange(category)
              /\ twin' = Pending("category", "", category, <<>>)
       /\ UNCHANGED <<trip, download, preview>>
    \/ /\ twin = NoAction
       /\ \E id \in InputIds \ {"numberInput", "implementerSelect"} :
              \E value \in TwinValues(id) :
                  /\ inputEvent(id, value)
                  /\ twin' = Pending("input", ScriptId(id), value, <<>>)
       /\ UNCHANGED <<trip, download, preview>>
    \/ /\ twin = NoAction
       /\ \E value \in InputValues("implementerSelect") :
              inputEvent("implementerSelect", value)
       /\ UNCHANGED <<trip, asyncVars>>
    \/ /\ twin = NoAction
       /\ applyAndNext
       /\ twin' = Pending("confirm", "", "", <<>>)
       /\ UNCHANGED <<trip, download, preview>>
    \/ /\ twin = NoAction
       /\ navigatePrevious
       /\ twin' = Pending("back", "", "", <<>>)
       /\ UNCHANGED <<trip, download, preview>>
    \/ /\ twin.kind = "materials"
       /\ TwinHandler
       /\ twin' = Pending("processing", "", "", <<>>)
       /\ UNCHANGED <<trip, download, preview>>
    \/ /\ twin.kind \in {"processing", "images"}
       /\ TwinHandler
       /\ twin' = NoAction
       /\ UNCHANGED <<trip, download, preview>>
    \/ /\ twin.kind \in {"category", "input"}
       /\ TwinHandler
       /\ twin' = NoAction
       /\ UNCHANGED <<trip, download, preview>>
    \/ /\ twin.kind \in {"confirm", "back"}
       /\ TwinHandler
       /\ twin' = NoAction
       /\ UNCHANGED <<trip, download, preview>>
    \/ /\ twin.kind \notin {"none", "materials"}
       /\ ~ENABLED TwinHandler
       /\ twin' = NoAction
       /\ UNCHANGED <<tableVars, imageVars, pageVars, history, page, scriptVars, trip,
                      download, preview>>

TwinSpec == TwinInit /\ [][TwinNext]_vars

\* a name without its i-th field
WithoutField(name, i) ==
    LET f == NameFields(name)
    IN  JoinFields(SubSeq(f, 1, i - 1) \o SubSeq(f, i + 1, Len(f)))

(***************************************************************************)
(* C27: src/script.js behaves as src/app.js with the implementer field     *)
(* omitted: whenever the user has done the same on both pages (same        *)
(* imports, same confirmations and navigation, same form values), the two  *)
(* pages have the same cursor and the same ledger keys, and each name of   *)
(* src/script.js is the name src/app.js assigned to the same image without *)
(* its 7th field, the implementer id.                                      *)
(***************************************************************************)
C27_SimplerOmitsImplementer ==
    twin = NoAction =>
        /\ state.currentIndex = currentIndex
        /\ DOMAIN state.renamedFiles = DOMAIN processedFiles
        /\ \A f \in DOMAIN state.renamedFiles \cap DOMAIN processedFiles :
               state.renamedFiles[f] =
                   WithoutField(processedFiles[f].newName, 7) \o "."
                       \o processedFiles[f].extension

(***************************************************************************)
(* C28: an export reads the ledger as a snapshot when it is triggered: the *)
(* (full new filename, content) pairs placed in the archive are the        *)
(* ledger's content at that moment, no step taken while the archive is     *)
(* being generated changes them, the archive saved holds exactly them, and *)
(* the file count reported afterwards is the number of files archived.     *)
(***************************************************************************)
C28_ExportIsSnapshot ==
    [][/\ (download.stage # "generating" /\ download'.stage = "generating")
              => download'.files = WouldArchive
       /\ download.stage = "generating" => download'.files = download.files
       /\ (download.stage = "generating" /\ download'.stage = "saved")
              => /\ download'.saved = download.files
                 /\ download'.reported # -1
                        => download'.reported = Cardinality(download'.saved)]_vars

(***************************************************************************)
(* A session that is set up once and then confirmed through: every table,  *)
(* the images and every field of the form are given once, with values the  *)
(* page accepts, and never changed again; the user goes on pressing the    *)
(* confirm button while it is enabled.                                     *)
(***************************************************************************)
CompletionInit == PagesInit

\* the confirmation of either page
ConfirmToEnd ==
    \/ /\ page = "app.js"
       /\ applyAndNext
       /\ UNCHANGED <<trip, asyncVars>>
    \/ /\ page = "script.js"
       /\ applyAndNext_script
       /\ UNCHANGED <<trip, asyncVars>>

CompletionNext ==
    \/ /\ page = "app.js"
       /\ DOMAIN materials = {}
       /\ handleExcelUpload(CompleteWorkbook)
       /\ UNCHANGED <<trip, asyncVars>>
    \/ /\ page = "app.js"
       /\ imageFiles = <<>>
       /\ \E files \in FileLists : handleImageUpload(files)
       /\ UNCHANGED <<trip, asyncVars>>
    \/ /\ page = "app.js"
       /\ inputs.materialCategorySelect = ""
       /\ \E category \in DOMAIN materialCategories : handleMaterialCategoryChange(category)
       /\ UNCHANGED <<trip, asyncVars>>
    \/ /\ page = "app.js"
       /\ \E id \in InputIds \ {"numberInput"} :
              /\ inputs[id] = ""
              /\ \E value \in InputValues(id) : inputEvent(id, value)
       /\ UNCHANGED <<trip, asyncVars>>
    \/ /\ page = "script.js"
       /\ DOMAIN state.materials = {}
       /\ handleMaterialLoad(CompleteMaterialMaster)
       /\ UNCHANGED <<trip, asyncVars>>
    \/ /\ page = "script.js"
       /\ DOMAIN state.processing = {}
       /\ handleProcessingLoad(CompleteProcessingMaster)
       /\ UNCHANGED <<trip, asyncVars>>
    \/ /\ page = "script.js"
       /\ state.images = <<>>
       /\ \E files \in FileLists : handleImagesLoad(files)
       /\ UNCHANGED <<trip, asyncVars>>
    \/ /\ page = "script.js"
       /\ dom.inputCategory = ""
       /\ \E category \in DOMAIN state.materialCategories : handleCategoryChange(category)
       /\ UNCHANGED <<trip, asyncVars>>
    \/ /\ page = "script.js"
       /\ \E id \in ScriptInputIds :
              /\ dom[id] = ""
              /\ \E value \in ScriptInputValues(id) \ {"5%"} : inputChange(id, value)
       /\ UNCHANGED <<trip, asyncVars>>
    \/ /\ page = "app.js"
       /\ applyAndNext
       /\ UNCHANGED <<trip, asyncVars>>
    \/ /\ page = "script.js"
       /\ applyAndNext_script
       /\ UNCHANGED <<trip, asyncVars>>

CompletionSpec ==
    CompletionInit /\ [][CompletionNext]_vars /\ WF_vars(ConfirmToEnd)

\* the tables are loaded, the form is valid, and the cursor is on the first
\* of the images, none of them confirmed
ReadyToStart ==
    /\ Len(SequenceOf) > 0
    /\ Cursor = 0
    /\ DOMAIN LedgerOf = {}
    /\ IF page = "app.js"
       THEN hasExcel(materials, processingMethods, implementers) /\ validateForm(inputs)
       ELSE isReady_script(state) /\ validateInputs(dom)

\* the cursor is on the last image, completion has been signalled, every
\* image has its ledger entry and the download button is enabled
Completed ==
    /\ Cursor = Len(SequenceOf) - 1
    /\ DOMAIN LedgerOf = Range(SequenceOf)
    /\ Cardinality(DOMAIN LedgerOf) = Len(SequenceOf)
    /\ IF page = "app.js"
       THEN imagePreview = "completion" /\ ~disabled.downloadButton
       ELSE dom.alert = "complete" /\ ~dom.btnDownload

\* the images confirmed so far are those before the cursor, and the one at
\* the cursor once it is the last and confirmed
ConfirmedUpToCursor ==
    \/ DOMAIN LedgerOf = {SequenceOf[i] : i \in 1..Cursor}
    \/ /\ Cursor = Len(SequenceOf) - 1
       /\ DOMAIN LedgerOf = Range(SequenceOf)

(***************************************************************************)
(* C29: completion.  With the lookup tables loaded, N images and a form    *)
(* that stays valid, consecutive confirmations starting at cursor 0 end    *)
(* with the cursor at N-1, completion signalled, a ledger entry for every  *)
(* image (ledger size N) and the export available; every confirmation on   *)
(* the way confirms the image at the cursor, so that N of them are needed. *)
(***************************************************************************)
C29_ConfirmsReachCompletion ==
    /\ [](Len(SequenceOf) > 0 => ConfirmedUpToCursor)
    /\ ReadyToStart ~> Completed

\* three images have been confirmed one after the other
C29_Witness ==
    /\ Len(SequenceOf) = 3
    /\ Completed

(***************************************************************************)
(* src/app.js: displayCurrentImage is started by the handlers and not      *)
(* awaited.  It captures the file under the cursor and starts its decode   *)
(* (FileReader.readAsDataURL, or for HEIC files createImageBitmap /        *)
(* heic2any / libheif); when a decode settles, in whatever order, its      *)
(* callback puts the captured file on imagePreview and writes imageInfo    *)
(* from the cursor and the sequence as they are by then and the captured   *)
(* name.                                                                   *)
(***************************************************************************)
\* displayCurrentImage up to its decode: the file under the new cursor is
\* captured and its decode is pending
StartDecode == [preview EXCEPT !.pending = @ \cup {imageFiles'[currentIndex' + 1]}]

\* showCompletionMessage
ShowCompletion ==
    [preview EXCEPT !.shown = "completion",
                    !.info = <<Cardinality(DOMAIN processedFiles')>>]

\* reader.onload, and the part of the HEIC branch after its await
decodeSettled(file) ==
    /\ file \in preview.pending
    /\ preview' = [pending |-> preview.pending \ {file},
                   shown |-> file,
                   info |-> <<currentIndex + 1, Len(imageFiles), file>>]
    /\ UNCHANGED <<tableVars, imageVars, pageVars, history, page, scriptVars, trip,
                   download, twin>>

PreviewInit == Init

PreviewNext ==
    \/ /\ handleExcelUpload(CompleteWorkbook)
       /\ UNCHANGED <<trip, asyncVars>>
    \/ /\ \E files \in ExportFileLists : handleImageUpload(files)
       /\ preview' = IF isReady' THEN StartDecode ELSE preview
       /\ UNCHANGED <<trip, download, twin>>
    \/ /\ \E category \in DOMAIN materialCategories : handleMaterialCategoryChange(category)
       /\ UNCHANGED <<trip, asyncVars>>
    \/ /\ \E id \in InputIds \ {"numberInput"} :
              \E value \in InputValues(id) : inputEvent(id, value)
       /\ UNCHANGED <<trip, asyncVars>>
    \/ /\ navigatePrevious
       /\ preview' = StartDecode
       /\ UNCHANGED <<trip, download, twin>>
    \/ /\ applyAndNext
       /\ preview' = IF ~(validateForm(inputs) /\ Len(imageFiles) > 0) THEN preview
                     ELSE IF currentIndex < Len(imageFiles) - 1 THEN StartDecode
                     ELSE ShowCompletion
       /\ UNCHANGED <<trip, download, twin>>
    \/ \E file \in preview.pending : decodeSettled(file)

PreviewSpec == PreviewInit /\ [][PreviewNext]_vars

(***************************************************************************)
(* C30: the preview follows the cursor: under every interleaving of        *)
(* imports, confirmations and navigation with pending preview decodes,     *)
(* once all pending decodes have settled, the image shown and the filename *)
(* and index displayed belong to the image at the current cursor.          *)
(***************************************************************************)
C30_PreviewFollowsCursor ==
    (preview.pending = {} /\ preview.shown \notin {"placeholder", "completion"}) =>
        /\ currentIndex + 1 \in DOMAIN imageFiles
        /\ preview.shown = imageFiles[currentIndex + 1]
        /\ preview.info = <<currentIndex + 1, Len(imageFiles), imageFiles[currentIndex + 1]>>

====
